---- MODULE Spec2Model ----
(***************************************************************************)
(* One conversation turn of WebMCPAgent.chat_stream (backend/mcp_agent.py) *)
(* and of AgentOrchestrator.chat_stream (backend/mcp_modules/              *)
(* agent_orchestrator.py): the streaming / tool-call round loop and the    *)
(* role pipeline.  Every yield of the generators appends one record to     *)
(* `events`; every await (next model token, tool completion) separates     *)
(* two actions.                                                            *)
(*                                                                         *)
(* The language model and the tools are the environment.  What one model   *)
(* invocation does (tokens streamed, failure, finalized tool-call list,    *)
(* outcome of each requested tool) is a "plan" drawn when the invocation   *)
(* starts.  The first MaxFree invocations of a turn draw any plan of       *)
(* FreePlans; the next one fixes a plan of TailPlans, which every later    *)
(* invocation follows; in the single-agent loop a later invocation may     *)
(* also answer instead.                                                    *)
(***************************************************************************)
EXTENDS Integers, Sequences, FiniteSets, TLC

VARIABLES
    kind,                       \* llm_profiles[profile_id]["kind"]: "model" or "agent"
    pc,                         \* position of the generator
    events,                     \* everything yielded so far
    shared_history,             \* the shared message list
    round_index,
    combined_response_started,
    consecutive_tool_failures,
    tool_error_history,
    tool_calls_check,           \* tool_calls_check / tool_calls_to_run / tool_calls
    content_preview,            \* TRUE iff the finalized content is non-empty
    last_usage,                 \* TRUE iff token usage was captured
    buffered_chunks,            \* number of chunks buffered in this round
    response_started,
    multimodal_fallback_attempted,
    non_multimodal_models,      \* self._non_multimodal_models
    current_model_key,          \* what _get_current_model_key(session_id) returns
    force_text_only,
    i,                          \* index of the for loop over the tool calls
    current_round_has_error,
    plan,                       \* environment: the plan of the invocation under way
    sent,                       \* environment: tokens delivered by the stream under way
    freeLeft,                   \* environment: invocations that may still draw freely
    tail,                       \* environment: the plan repeated after the free ones
    execFailStreak,             \* history: failed tool executions since the last success or fallback
    lastExecOk,                 \* history: the most recent tool execution succeeded
    fbRound,                    \* history: round_index at the last fallback, 0 if none
    inflight,                   \* history: tool invocations awaited right now
    roles,                      \* spec["roles"]: the role ids, in order
    tools_allowlist,            \* spec["tools_allowlist"]
    role_idx,                   \* position of the for loop over roles
    tool_iterations,
    messages,                   \* the role's own message list
    role_prefix_sent,
    any_streamed,
    role_outputs,               \* dict role id -> last content, in insertion order
    role_last_content,
    tool_call,                  \* argument parsing: the tool call as the model emitted it
    tool_args_raw,
    parsed_args,
    task,                       \* stream_and_persist: the turn task
    consumed,                   \* stream_and_persist: events of the generator handled
    client,                     \* everything sent over the websocket
    ws_response_started,        \* stream_and_persist: its local response_started
    ai_response_parts,          \* conversation_data["ai_response_parts"]
    mcp_results,                \* conversation_data["mcp_results"]
    saved,                      \* the ai_response of every save_conversation call
    mcp_level,                  \* logging.getLogger('mcp').level, shared by all sessions
    original_level,             \* per session: the local original_level of its generator
    in_call,                    \* per session: the call its generator is suspended in
    callsLeft,                  \* per session: calls it may still start
    initial_level,              \* history: the level before the first call
    environ,                    \* os.environ: OPENAI_API_KEY and OPENAI_BASE_URL
    llm_cache,                  \* ModelManager._llm_cache: profile id -> bundle
    constructions,              \* history: per profile id, how often ChatOpenAI(...) was run
    requested,                  \* the profile_id of the call last made
    returned,                   \* what that call returned, or that it raised
    session_model,              \* session_contexts[session_id]["model"]
    profile_id,                 \* chat_stream: the profile id read at the turn's start
    prompt_profiles,            \* history: the profiles whose system prompt the turn used
    mm_failed                   \* history: the models whose call failed as multimodal

vars == <<kind, pc, events, shared_history, round_index, combined_response_started,
          consecutive_tool_failures, tool_error_history, tool_calls_check,
          content_preview, last_usage, buffered_chunks, response_started,
          multimodal_fallback_attempted, non_multimodal_models, i, current_round_has_error,
          plan, sent, freeLeft, tail, execFailStreak, lastExecOk, fbRound, inflight,
          roles, tools_allowlist, role_idx, tool_iterations, messages,
          role_prefix_sent, any_streamed, role_outputs, role_last_content,
          current_model_key, force_text_only, tool_call, tool_args_raw, parsed_args,
          task, consumed, client, ws_response_started, ai_response_parts, mcp_results,
          saved, mcp_level, original_level, in_call, callsLeft, initial_level,
          environ, llm_cache, constructions, requested, returned,
          session_model, profile_id, prompt_profiles, mm_failed>>

(***************************************************************************)
(* Program constants                                                       *)
(***************************************************************************)
max_rounds == 25
max_consecutive_failures == 3
max_tool_iterations == 6

(***************************************************************************)
(* Bounds of the environment                                               *)
(***************************************************************************)
MaxFree == 1

\* self.tools: the names of the registered tools
Tools == {"get_price", "get_news"}

Call(id, name, res) == [id |-> id, name |-> name, res |-> res]

\* Tool-call lists a finalized model output may carry.  id "" is a call
\* without id; res is what ainvoke does when the name resolves.
CallLists ==
    { <<Call("a", "get_price", "ok")>>,
      <<Call("a", "get_price", "raise")>>,
      <<Call("b", "no_such_tool", "ok")>>,
      <<Call("b", "get_price", "raise"), Call("a", "get_news", "ok")>>,
      <<Call("a", "get_news", "ok"), Call("", "no_such_tool", "ok")>>,
      <<Call("c", "get_price", "raise"), Call("a", "no_such_tool", "ok"),
        Call("b", "get_news", "raise")>> }

Plan(tok, fail, rtok, rfail, calls, content, usage) ==
    [tok |-> tok, fail |-> fail, rtok |-> rtok, rfail |-> rfail,
     calls |-> calls, content |-> content, usage |-> usage]

NoPlan == Plan(0, "none", 0, FALSE, <<>>, FALSE, FALSE)

\* Plans that end in a tool request.
ToolPlans ==
    { Plan(0, "none", 0, FALSE, c, FALSE, FALSE) : c \in CallLists }
    \cup { Plan(1, "none", 0, FALSE, <<Call("a", "get_price", "ok")>>, TRUE, TRUE),
           Plan(0, "mm", 1, FALSE, <<Call("a", "get_price", "raise")>>, FALSE, FALSE) }

\* Plans that end without a tool request (an answer, or a failed invocation).
AnswerPlans ==
    { Plan(t, "none", 0, FALSE, <<>>, c, u) : t \in 0..2, c \in BOOLEAN, u \in BOOLEAN }
    \cup { Plan(0, "err", 0, FALSE, <<>>, FALSE, FALSE),
           Plan(1, "err", 0, FALSE, <<>>, FALSE, FALSE),
           Plan(0, "mm", 1, FALSE, <<>>, TRUE, FALSE),
           Plan(0, "mm", 0, FALSE, <<>>, TRUE, FALSE),
           Plan(1, "mm", 0, FALSE, <<>>, TRUE, FALSE),
           Plan(0, "mm", 0, TRUE, <<>>, FALSE, FALSE),
           Plan(0, "mm", 1, TRUE, <<>>, FALSE, FALSE) }

FreePlans == ToolPlans \cup AnswerPlans

\* a streamed answer without tool call
Answer == Plan(1, "none", 0, FALSE, <<>>, TRUE, TRUE)

\* an answer that arrives with the finalized output only, no token streamed
UnstreamedAnswer == Plan(0, "none", 0, FALSE, <<>>, TRUE, FALSE)

TailPlans ==
    { Answer,
      Plan(0, "none", 0, FALSE, <<Call("a", "get_price", "ok")>>, FALSE, FALSE),
      Plan(0, "none", 0, FALSE, <<Call("a", "get_price", "raise")>>, FALSE, FALSE),
      Plan(1, "none", 0, FALSE, <<Call("b", "no_such_tool", "ok"),
                                  Call("a", "get_price", "raise")>>, FALSE, FALSE) }

\* in a pipeline the repeated plan may also be an answer that is not streamed
AgentTailPlans == TailPlans \cup {UnstreamedAnswer}

\* spec["roles"] of the agent file (or of _default_spec)
RoleLists ==
    { <<"planner", "researcher", "writer">>,
      <<"planner", "writer">>,
      <<"writer", "editor">> }

\* role["tool_allowlist"] of the role entries of the agent file that carry
\* the key; the orchestrator reads id, system_prompt and model_profile only
RoleToolAllowlist == [planner |-> {"get_news"}, researcher |-> {"get_news"}]

\* spec["tools_allowlist"]
Allowlists == { {}, {"get_price"}, {"search_web"} }

\* f"{model_name}@{base_url}" of the profiles a session can select
ModelKeys == {"gpt@a", "qwen@b", "@"}

(***************************************************************************)
(* Events and messages                                                     *)
(***************************************************************************)
Ev(type, tool_id, content) == [type |-> type, tool_id |-> tool_id, content |-> content]

\* rnd is a history field: the round in which the message was appended.
Msg(role, content, calls, tool_call_id, name, rnd) ==
    [role |-> role, content |-> content, tool_calls |-> calls,
     tool_call_id |-> tool_call_id, name |-> name, rnd |-> rnd]

\* tool_call.get('id') or f"call_{i}"
ToolId(call, idx) == IF call.id # "" THEN call.id ELSE "call_" \o ToString(idx)

\* the first yield of a round's stream also opens the reply, once per turn
StartIfNeeded(started) ==
    IF started THEN <<>> ELSE <<Ev("ai_response_start", "", "")>>

(***************************************************************************)
(* Python values a tool call can carry as its arguments.  t is the type,   *)
(* v the text str() returns; a mapping is written key=value, the empty     *)
(* mapping and the empty text have v = "".                                 *)
(***************************************************************************)
Val(t, v) == [t |-> t, v |-> v]

None == Val("none", "None")
EmptyDict == Val("dict", "")

ArgValues ==
    { None,
      Val("str", ""), Val("str", "{\"symbol\": \"AAPL\"}"), Val("str", "7"),
      Val("str", "{oops"),
      EmptyDict, Val("dict", "symbol=AAPL"),
      Val("int", "0"), Val("int", "7"),
      Val("bool", "False"), Val("bool", "True") }

\* tool_call as a dict (function.arguments and args) or as an object (.args)
RawCall(shape, fn_arguments, args) ==
    [shape |-> shape, fn_arguments |-> fn_arguments, args |-> args]

NoCall == RawCall("dict", None, None)

RawCalls ==
    { RawCall("dict", f, a) : f \in ArgValues, a \in ArgValues }
    \cup { RawCall("object", None, a) : a \in ArgValues }

(***************************************************************************)
(* Initial state: the generator has been created, nothing has run.         *)
(***************************************************************************)
TurnInit ==
    /\ kind \in {"model", "agent"}
    /\ IF kind = "agent"
       THEN roles \in RoleLists /\ tools_allowlist \in Allowlists
       ELSE roles = <<>> /\ tools_allowlist = {}
    /\ role_idx = 0
    /\ tool_iterations = 0
    /\ messages = <<>>
    /\ role_prefix_sent = FALSE
    /\ any_streamed = FALSE
    /\ role_outputs = <<>>
    /\ role_last_content = ""
    /\ events = <<>>
    /\ shared_history = <<>>
    /\ round_index = 0
    /\ combined_response_started = FALSE
    /\ consecutive_tool_failures = 0
    /\ tool_error_history = <<>>
    /\ tool_calls_check = <<>>
    /\ content_preview = FALSE
    /\ last_usage = FALSE
    /\ buffered_chunks = 0
    /\ response_started = FALSE
    /\ multimodal_fallback_attempted = FALSE
    /\ non_multimodal_models = {}
    /\ force_text_only = FALSE
    /\ tool_args_raw = None
    /\ parsed_args = None
    /\ task = "running"
    /\ consumed = 0
    /\ client = <<>>
    /\ ws_response_started = FALSE
    /\ ai_response_parts = <<>>
    /\ mcp_results = <<>>
    /\ saved = <<>>
    /\ i = 0
    /\ current_round_has_error = FALSE
    /\ plan = NoPlan
    /\ sent = 0
    /\ freeLeft = MaxFree
    /\ tail = NoPlan
    /\ execFailStreak = 0
    /\ lastExecOk = FALSE
    /\ fbRound = 0
    /\ inflight = 0

\* the sessions whose turns run concurrently in the process
Sessions == {"s1", "s2"}

\* no generator is inside a model stream or a tool invocation
LogIdle ==
    /\ mcp_level = "NOTSET"
    /\ initial_level = "NOTSET"
    /\ original_level = [s \in Sessions |-> "NOTSET"]
    /\ in_call = [s \in Sessions |-> "idle"]
    /\ callsLeft = [s \in Sessions |-> 0]

\* os.getenv(name) is None
Unset == "unset"

EnvNames == {"OPENAI_API_KEY", "OPENAI_BASE_URL"}

\* self.llm_profiles: the credentials of the profiles of the deployment;
\* "" is a value the profile does not carry
LlmProfiles ==
    [default |-> [api_key |-> "k-default", base_url |-> "a", model |-> "gpt"],
     qwen |-> [api_key |-> "k-qwen", base_url |-> "b", model |-> "qwen"]]

\* session_contexts[session_id]["user_models"]: models a user defined
UserModels ==
    ("user-1" :> [api_key |-> "k-u1", base_url |-> "", model |-> "llava"])
    @@ ("user-2" :> [api_key |-> "", base_url |-> "u2", model |-> "gpt4v"])

default_profile_id == "default"

\* the ids a session can store in session_contexts[sid]["model"]
ProfileIds == DOMAIN LlmProfiles \cup DOMAIN UserModels

\* model_manager.py 159-172: the key is built from llm_profiles alone; an id
\* that is not a key of llm_profiles reads the empty configuration
get_current_model_key(profile) ==
    LET pid == IF profile = "" THEN default_profile_id ELSE profile
        cfg == IF pid \in DOMAIN LlmProfiles THEN LlmProfiles[pid]
               ELSE [model |-> "", base_url |-> ""]
    IN  cfg.model \o "@" \o cfg.base_url

\* mcp_agent.py 457-486: the model the turn's invocations are sent to, a
\* user-defined model from the session's own list, any other id through
\* model_manager (an unknown id falls back to the default profile)
BoundModel(profile) ==
    IF profile \in DOMAIN UserModels
    THEN UserModels[profile].model \o "@" \o UserModels[profile].base_url
    ELSE LET pid == IF profile \in DOMAIN LlmProfiles THEN profile
                    ELSE default_profile_id
         IN  LlmProfiles[pid].model \o "@" \o LlmProfiles[pid].base_url

\* before any turn: the session has the default profile selected
SessIdle ==
    /\ session_model = default_profile_id
    /\ profile_id = ""
    /\ prompt_profiles = {}
    /\ mm_failed = {}

\* what a call for a binding came to; built is a history field: the call
\* ran the construction
NoBundle == [pid |-> "", serial |-> 0]
Outcome(status, bundle, built) == [status |-> status, bundle |-> bundle, built |-> built]

\* no binding has been asked for
BindIdle ==
    /\ environ = [n \in EnvNames |-> "env"]
    /\ llm_cache = <<>>
    /\ constructions = [p \in DOMAIN LlmProfiles |-> 0]
    /\ requested = ""
    /\ returned = Outcome("none", NoBundle, FALSE)

AmbientIdle == LogIdle /\ BindIdle /\ SessIdle

\* the profile the session has selected
DefaultKey == "gpt@a"

Init ==
    /\ TurnInit /\ AmbientIdle
    /\ pc = "start"
    /\ tool_call = NoCall
    /\ current_model_key = DefaultKey

envVars == <<plan, sent, freeLeft, tail>>
logVars == <<mcp_level, original_level, in_call, callsLeft, initial_level>>
bindVars == <<environ, llm_cache, constructions, requested, returned>>
sessVars == <<session_model, profile_id, prompt_profiles, mm_failed>>
ambientVars == <<logVars, bindVars, sessVars>>
keyVars == <<current_model_key, force_text_only>>
argVars == <<tool_call, tool_args_raw, parsed_args>>
wsVars == <<task, consumed, client, ws_response_started, ai_response_parts,
           mcp_results, saved>>
histVars == <<execFailStreak, lastExecOk, fbRound, inflight>>
pipeVars == <<roles, tools_allowlist, role_idx, tool_iterations, messages,
              role_prefix_sent, any_streamed, role_outputs, role_last_content>>
roundVars == <<tool_calls_check, content_preview, last_usage, buffered_chunks,
               response_started, multimodal_fallback_attempted, i,
               current_round_has_error>>
turnVars == <<round_index, combined_response_started, consecutive_tool_failures,
              tool_error_history>>

\* The environment draws the plan of the invocation that starts now.
DrawPlan ==
    /\ sent' = 0
    /\ IF freeLeft > 0
       THEN /\ plan' \in FreePlans
            /\ freeLeft' = freeLeft - 1
            /\ tail' = tail
       ELSE /\ IF tail = NoPlan
               THEN tail' \in (IF kind = "model" THEN TailPlans ELSE AgentTailPlans)
               ELSE tail' = tail
            /\ plan' \in (IF kind = "model" THEN {tail', Answer, UnstreamedAnswer}
                          ELSE {tail'})
            /\ freeLeft' = freeLeft

(***************************************************************************)
(* WebMCPAgent.chat_stream, single-agent path                              *)
(***************************************************************************)

ForceTextOnly_never(key, marked) == FALSE

\* line 493: current_model_key in self._non_multimodal_models
ForceTextOnly(key, marked) == key \in marked

\* message_processor.build_shared_history(history, user_input, text_only,
\* concise=True): the history records and the new input as messages, non-text
\* content left out when text_only
build_shared_history(text_only) ==
    <<Msg("user", IF text_only THEN "input as text" ELSE "input", <<>>, "", "", 0)>>

\* lines 434-507: status, model binding, shared history, loop variables
StartTurn ==
    /\ pc = "start" /\ kind = "model"
    /\ events' = Append(events, Ev("status", "", ""))
    /\ profile_id' = session_model
    /\ current_model_key' = get_current_model_key(session_model)
    /\ force_text_only' = ForceTextOnly(current_model_key', non_multimodal_models)
    /\ shared_history' = build_shared_history(force_text_only')
    /\ pc' = "loop"
    /\ UNCHANGED <<pipeVars, argVars, wsVars, logVars, bindVars,
                   session_model, prompt_profiles, mm_failed>>
    /\ UNCHANGED <<kind, turnVars, roundVars, non_multimodal_models, envVars, histVars>>

\* lines 486-498 raise (unknown default profile, client construction, history
\* building): caught at line 835
StartTurnRaises ==
    /\ pc = "start" /\ kind = "model"
    /\ events' = events \o <<Ev("status", "", ""), Ev("error", "", "")>>
    /\ pc' = "done"
    /\ UNCHANGED <<pipeVars, keyVars, argVars, wsVars, ambientVars>>
    /\ UNCHANGED <<kind, shared_history, turnVars, roundVars, non_multimodal_models,
                   envVars, histVars>>

LoopContinues_offByOne(r) == r <= max_rounds

\* line 508: while round_index < max_rounds
LoopContinues(r) == r < max_rounds

\* lines 508-519: one more round
RoundBegin ==
    /\ pc = "loop" /\ LoopContinues(round_index)
    /\ round_index' = round_index + 1
    /\ tool_calls_check' = <<>>
    /\ last_usage' = FALSE
    /\ buffered_chunks' = 0
    /\ content_preview' = FALSE
    /\ response_started' = FALSE
    /\ multimodal_fallback_attempted' = FALSE
    /\ DrawPlan
    /\ prompt_profiles' = prompt_profiles \cup {session_model}
    /\ pc' = "stream"
    /\ UNCHANGED <<pipeVars, keyVars, argVars, wsVars, logVars, bindVars,
                   session_model, profile_id, mm_failed>>
    /\ UNCHANGED <<kind, events, shared_history, combined_response_started,
                   consecutive_tool_failures, tool_error_history, non_multimodal_models,
                   i, current_round_has_error, histVars>>

BudgetEvents_raises == <<Ev("error", "", "budget")>>

\* lines 830-833: what the exhausted budget yields
BudgetEvents ==
    <<Ev("ai_response_start", "", ""),
      Ev("ai_response_chunk", "", "budget"),
      Ev("ai_response_end", "", "budget")>>

\* lines 828-834: the while condition failed
BudgetExhausted ==
    /\ pc = "loop" /\ ~LoopContinues(round_index)
    /\ events' = events \o BudgetEvents
    /\ pc' = "done"
    /\ UNCHANGED <<pipeVars, keyVars, argVars, wsVars, ambientVars>>
    /\ UNCHANGED <<kind, shared_history, turnVars, roundVars, non_multimodal_models,
                   envVars, histVars>>

\* lines 531-551: one content token of the first stream
StreamToken ==
    /\ pc = "stream" /\ sent < plan.tok
    /\ sent' = sent + 1
    /\ events' = events \o StartIfNeeded(combined_response_started)
                        \o <<Ev("ai_response_chunk", "", "token")>>
    /\ combined_response_started' = TRUE
    /\ response_started' = TRUE
    /\ buffered_chunks' = buffered_chunks + 1
    /\ UNCHANGED <<pipeVars, keyVars, argVars, wsVars, ambientVars>>
    /\ UNCHANGED <<kind, pc, shared_history, round_index, consecutive_tool_failures,
                   tool_error_history, tool_calls_check, content_preview, last_usage,
                   multimodal_fallback_attempted, non_multimodal_models, i,
                   current_round_has_error, plan, freeLeft, tail, histVars>>

\* lines 552-589: on_chat_model_end of the first stream
StreamEnd ==
    /\ pc = "stream" /\ sent = plan.tok /\ plan.fail = "none"
    /\ tool_calls_check' = plan.calls
    /\ content_preview' = (plan.content \/ plan.tok > 0)
    /\ last_usage' = plan.usage
    /\ pc' = "decide"
    /\ UNCHANGED <<pipeVars, keyVars, argVars, wsVars, ambientVars>>
    /\ UNCHANGED <<kind, events, shared_history, turnVars, buffered_chunks,
                   response_started, multimodal_fallback_attempted, non_multimodal_models,
                   i, current_round_has_error, envVars, histVars>>

\* lines 139-141: _is_multimodal_error(error_msg); the environment says which
\* kind of error the stream raised
IsMultimodalError(fail) == fail = "mm"

RetryAllowed_anyError(attempted, fail) == ~attempted

\* line 595: the test that admits the text-only retry
RetryAllowed(attempted, fail) == ~attempted /\ IsMultimodalError(fail)

Marked_nothing(marked, key) == marked

\* line 599: self._non_multimodal_models.add(current_model_key)
Marked(marked, key) == marked \cup {key}

\* lines 590-609: the first stream raised a multimodal-unsupported error
StreamMultimodalError ==
    /\ pc = "stream" /\ sent = plan.tok /\ plan.fail # "none"
    /\ RetryAllowed(multimodal_fallback_attempted, plan.fail)
    /\ non_multimodal_models' = Marked(non_multimodal_models, current_model_key)
    /\ events' = events \o StartIfNeeded(combined_response_started)
                        \o <<Ev("ai_response_chunk", "", "notice")>>
    /\ combined_response_started' = TRUE
    /\ multimodal_fallback_attempted' = TRUE
    /\ sent' = 0
    /\ mm_failed' = mm_failed \cup {BoundModel(profile_id)}
    /\ pc' = "retry"
    /\ UNCHANGED <<pipeVars, keyVars, argVars, wsVars, logVars, bindVars,
                   session_model, profile_id, prompt_profiles>>
    /\ UNCHANGED <<kind, shared_history, round_index, consecutive_tool_failures,
                   tool_error_history, tool_calls_check, content_preview, last_usage,
                   buffered_chunks, response_started, i, current_round_has_error,
                   plan, freeLeft, tail, histVars>>

\* lines 590-595, 651-653: the first stream raised any other error
StreamOtherError ==
    /\ pc = "stream" /\ sent = plan.tok /\ plan.fail # "none"
    /\ ~RetryAllowed(multimodal_fallback_attempted, plan.fail)
    /\ tool_calls_check' = <<>>
    /\ content_preview' = FALSE
    /\ pc' = "decide"
    /\ UNCHANGED <<pipeVars, keyVars, argVars, wsVars, ambientVars>>
    /\ UNCHANGED <<kind, events, shared_history, turnVars, last_usage, buffered_chunks,
                   response_started, multimodal_fallback_attempted, non_multimodal_models,
                   i, current_round_has_error, envVars, histVars>>

\* lines 615-633: one content token of the text-only retry
RetryToken ==
    /\ pc = "retry" /\ sent < plan.rtok
    /\ sent' = sent + 1
    /\ events' = Append(events, Ev("ai_response_chunk", "", "token"))
    /\ response_started' = TRUE
    /\ buffered_chunks' = buffered_chunks + 1
    /\ UNCHANGED <<pipeVars, keyVars, argVars, wsVars, ambientVars>>
    /\ UNCHANGED <<kind, pc, shared_history, turnVars, tool_calls_check,
                   content_preview, last_usage, multimodal_fallback_attempted,
                   non_multimodal_models, i, current_round_has_error, plan, freeLeft, tail,
                   histVars>>

\* lines 634-646: on_chat_model_end of the retry
RetryEnd ==
    /\ pc = "retry" /\ sent = plan.rtok /\ ~plan.rfail
    /\ tool_calls_check' = plan.calls
    /\ content_preview' = (plan.content \/ plan.rtok > 0)
    /\ pc' = "decide"
    /\ UNCHANGED <<pipeVars, keyVars, argVars, wsVars, ambientVars>>
    /\ UNCHANGED <<kind, events, shared_history, turnVars, last_usage, buffered_chunks,
                   response_started, multimodal_fallback_attempted, non_multimodal_models,
                   i, current_round_has_error, envVars, histVars>>

\* lines 647-650: the retry raised
RetryError ==
    /\ pc = "retry" /\ sent = plan.rtok /\ plan.rfail
    /\ tool_calls_check' = <<>>
    /\ content_preview' = FALSE
    /\ pc' = "decide"
    /\ UNCHANGED <<pipeVars, keyVars, argVars, wsVars, ambientVars>>
    /\ UNCHANGED <<kind, events, shared_history, turnVars, last_usage, buffered_chunks,
                   response_started, multimodal_fallback_attempted, non_multimodal_models,
                   i, current_round_has_error, envVars, histVars>>


SeparatorEvents_unconditional(started, buffered) ==
    <<Ev("ai_response_chunk", "", "separator")>>

\* lines 657-659: the separator that replaces the terminator after a preamble
SeparatorEvents(started, buffered) ==
    IF started /\ buffered > 0 THEN <<Ev("ai_response_chunk", "", "separator")>> ELSE <<>>

\* lines 655-675: TOOL_DECIDED
DecideTools ==
    /\ pc = "decide" /\ tool_calls_check # <<>>
    /\ events' = events \o SeparatorEvents(response_started, buffered_chunks)
                        \o <<Ev("tool_plan", "", "")>>
    /\ buffered_chunks' = IF response_started /\ buffered_chunks > 0
                          THEN 0 ELSE buffered_chunks
    /\ shared_history' = Append(shared_history,
                                Msg("assistant", "", tool_calls_check, "", "", round_index))
    /\ i' = 0
    /\ current_round_has_error' = FALSE
    /\ pc' = "tools"
    /\ UNCHANGED <<pipeVars, keyVars, argVars, wsVars, ambientVars>>
    /\ UNCHANGED <<kind, turnVars, tool_calls_check, content_preview, last_usage,
                   response_started, multimodal_fallback_attempted, non_multimodal_models,
                   envVars, histVars>>

AnswerEvents_endOnlyIfFresh(started, buffered, content, usage) ==
    (IF started
     THEN <<>>
     ELSE <<Ev("ai_response_start", "", "")>>
          \o (IF buffered > 0 \/ content
              THEN <<Ev("ai_response_chunk", "", "final")>> ELSE <<>>)
          \o <<Ev("ai_response_end", "", "")>>)
    \o (IF usage THEN <<Ev("token_usage", "", "")>> ELSE <<>>)

\* lines 806-825: what ANSWER_DECIDED yields
AnswerEvents(started, buffered, content, usage) ==
    (IF started
     THEN <<Ev("ai_response_end", "", "")>>
     ELSE <<Ev("ai_response_start", "", "")>>
          \o (IF buffered > 0 \/ content
              THEN <<Ev("ai_response_chunk", "", "final")>> ELSE <<>>)
          \o <<Ev("ai_response_end", "", "")>>)
    \o (IF usage THEN <<Ev("token_usage", "", "")>> ELSE <<>>)

\* lines 803-826: ANSWER_DECIDED
DecideAnswer ==
    /\ pc = "decide" /\ tool_calls_check = <<>>
    /\ events' = events \o AnswerEvents(combined_response_started, buffered_chunks,
                                        content_preview, last_usage)
    /\ combined_response_started' = TRUE
    /\ pc' = "done"
    /\ UNCHANGED <<pipeVars, keyVars, argVars, wsVars, ambientVars>>
    /\ UNCHANGED <<kind, shared_history, round_index, consecutive_tool_failures,
                   tool_error_history, roundVars, non_multimodal_models, envVars, histVars>>

CallAt_reversed(calls, idx) == calls[Len(calls) + 1 - idx]

\* line 676: enumerate(tool_calls_to_run, 1)
CallAt(calls, idx) == calls[idx]

\* lines 676-698: the next call of the list is parsed and announced
ToolStart ==
    /\ pc = "tools" /\ i < Len(tool_calls_check)
    /\ i' = i + 1
    /\ events' = Append(events,
                        Ev("tool_start", ToolId(CallAt(tool_calls_check, i + 1), i + 1), ""))
    /\ pc' = "resolve"
    /\ UNCHANGED <<pipeVars, keyVars, argVars, wsVars, ambientVars>>
    /\ UNCHANGED <<kind, shared_history, turnVars, tool_calls_check, content_preview,
                   last_usage, buffered_chunks, response_started,
                   multimodal_fallback_attempted, non_multimodal_models,
                   current_round_has_error, envVars, histVars>>

WithToolMessage_errorsUnanswered(h, id, name, content, rnd) ==
    IF content = "error" THEN h ELSE Append(h, Msg("tool", content, <<>>, id, name, rnd))

WithToolMessage_overwrites(h, id, name, content, rnd) ==
    [h EXCEPT ![Len(h)] = Msg("tool", content, <<>>, id, name, rnd)]

WithToolMessage_dropsErrorText(h, id, name, content, rnd) ==
    Append(h, Msg("tool", IF content = "error" THEN "" ELSE content, <<>>, id, name, rnd))

\* lines 739-746: the tool message that answers the call
WithToolMessage(h, id, name, content, rnd) ==
    Append(h, Msg("tool", content, <<>>, id, name, rnd))

\* lines 702-714, 741-746: no registered tool has the name
ToolNotFound ==
    /\ pc = "resolve"
    /\ LET call == CallAt(tool_calls_check, i)
           id == ToolId(call, i)
       IN /\ call.name \notin Tools
          /\ events' = Append(events, Ev("tool_error", id, "not found"))
          /\ tool_error_history' = Append(tool_error_history, call.name)
          /\ shared_history' = WithToolMessage(shared_history, id, call.name,
                                               "error", round_index)
    /\ current_round_has_error' = TRUE
    /\ execFailStreak' = execFailStreak + 1
    /\ lastExecOk' = FALSE
    /\ pc' = "tools"
    /\ UNCHANGED <<pipeVars, keyVars, argVars, wsVars, ambientVars>>
    /\ UNCHANGED <<kind, round_index, combined_response_started,
                   consecutive_tool_failures, tool_calls_check, content_preview,
                   last_usage, buffered_chunks, response_started,
                   multimodal_fallback_attempted, non_multimodal_models, i, envVars,
                   fbRound, inflight>>

\* lines 715-723: the tool resolves; await target_tool.ainvoke(parsed_args)
ToolInvoke ==
    /\ pc = "resolve"
    /\ CallAt(tool_calls_check, i).name \in Tools
    /\ inflight' = inflight + 1
    /\ pc' = "await"
    /\ UNCHANGED <<pipeVars, keyVars, argVars, wsVars, ambientVars>>
    /\ UNCHANGED <<kind, events, shared_history, turnVars, roundVars, non_multimodal_models,
                   envVars, execFailStreak, lastExecOk, fbRound>>

\* lines 723-729, 741-746: ainvoke returned
ToolReturns ==
    /\ pc = "await"
    /\ LET call == CallAt(tool_calls_check, i)
           id == ToolId(call, i)
       IN /\ call.res = "ok"
          /\ events' = Append(events, Ev("tool_end", id, "result"))
          /\ shared_history' = WithToolMessage(shared_history, id, call.name,
                                               "result", round_index)
    /\ consecutive_tool_failures' = 0
    /\ execFailStreak' = 0
    /\ lastExecOk' = TRUE
    /\ inflight' = inflight - 1
    /\ pc' = "tools"
    /\ UNCHANGED <<pipeVars, keyVars, argVars, wsVars, ambientVars>>
    /\ UNCHANGED <<kind, round_index, combined_response_started, tool_error_history,
                   roundVars, non_multimodal_models, envVars, fbRound>>

ToolRaises_reportsEnd ==
    /\ pc = "await"
    /\ LET call == CallAt(tool_calls_check, i)
           id == ToolId(call, i)
       IN /\ call.res = "raise"
          /\ events' = Append(events, Ev("tool_end", id, "raised"))
          /\ tool_error_history' = Append(tool_error_history, call.name)
          /\ shared_history' = WithToolMessage(shared_history, id, call.name,
                                               "error", round_index)
    /\ current_round_has_error' = TRUE
    /\ execFailStreak' = execFailStreak + 1
    /\ lastExecOk' = FALSE
    /\ inflight' = inflight - 1
    /\ pc' = "tools"
    /\ UNCHANGED <<pipeVars, keyVars, argVars, wsVars, ambientVars>>
    /\ UNCHANGED <<kind, round_index, combined_response_started,
                   consecutive_tool_failures, tool_calls_check, content_preview,
                   last_usage, buffered_chunks, response_started,
                   multimodal_fallback_attempted, non_multimodal_models, i, envVars, fbRound>>

\* lines 730-746: ainvoke raised
ToolRaises ==
    /\ pc = "await"
    /\ LET call == CallAt(tool_calls_check, i)
           id == ToolId(call, i)
       IN /\ call.res = "raise"
          /\ events' = Append(events, Ev("tool_error", id, "raised"))
          /\ tool_error_history' = Append(tool_error_history, call.name)
          /\ shared_history' = WithToolMessage(shared_history, id, call.name,
                                               "error", round_index)
    /\ current_round_has_error' = TRUE
    /\ execFailStreak' = execFailStreak + 1
    /\ lastExecOk' = FALSE
    /\ inflight' = inflight - 1
    /\ pc' = "tools"
    /\ UNCHANGED <<pipeVars, keyVars, argVars, wsVars, ambientVars>>
    /\ UNCHANGED <<kind, round_index, combined_response_started,
                   consecutive_tool_failures, tool_calls_check, content_preview,
                   last_usage, buffered_chunks, response_started,
                   multimodal_fallback_attempted, non_multimodal_models, i, envVars, fbRound>>

FallbackDue_late(failures) == failures > max_consecutive_failures

\* line 757: the threshold test
FallbackDue(failures) == failures >= max_consecutive_failures

ForLoopOver_breaksAtThreshold(idx, calls) ==
    idx = Len(calls) \/ (idx > 0 /\ execFailStreak >= max_consecutive_failures)

\* lines 676, 748-749: the for loop ends with the list (exit_to_stream stays False)
ForLoopOver(idx, calls) == idx = Len(calls)

\* lines 751-801: the for loop is over; failure counter, fallback, next round
AfterTools ==
    /\ pc = "tools" /\ ForLoopOver(i, tool_calls_check)
    /\ LET failures == consecutive_tool_failures + 1
       IN IF current_round_has_error /\ FallbackDue(failures)
          THEN /\ shared_history' = Append(shared_history,
                                      Msg("user", "fallback", <<>>, "", "", round_index))
               /\ events' = Append(events, Ev("fallback_triggered", "", ""))
               /\ consecutive_tool_failures' = 0
               /\ tool_error_history' = <<>>
               /\ execFailStreak' = 0
               /\ fbRound' = round_index
          ELSE /\ consecutive_tool_failures' =
                      IF current_round_has_error THEN failures
                      ELSE consecutive_tool_failures
               /\ UNCHANGED <<shared_history, events, tool_error_history,
                              execFailStreak, fbRound>>
    /\ pc' = "loop"
    /\ UNCHANGED <<pipeVars, keyVars, argVars, wsVars, ambientVars>>
    /\ UNCHANGED <<kind, round_index, combined_response_started, roundVars,
                   non_multimodal_models, envVars, lastExecOk, inflight>>

(***************************************************************************)
(* AgentOrchestrator.chat_stream, reached from WebMCPAgent.chat_stream     *)
(* lines 444-455 when the session's profile is of kind "agent"             *)
(***************************************************************************)

\* what no action of the pipeline changes
agentFrame == <<keyVars, argVars, wsVars, ambientVars,
                kind, roles, tools_allowlist, round_index, combined_response_started,
                consecutive_tool_failures, tool_error_history, last_usage,
                response_started, multimodal_fallback_attempted, non_multimodal_models,
                current_round_has_error, execFailStreak, lastExecOk, fbRound>>

RoleText(role_id) == "text of " \o role_id
Tagged(role_id, text) == "[" \o role_id \o "] " \o text

\* role_outputs[role_id] = text on a dict that keeps insertion order
SetOutput(outs, role_id, text) ==
    IF \E k \in 1..Len(outs) : outs[k].id = role_id
    THEN [k \in 1..Len(outs) |->
              IF outs[k].id = role_id THEN [id |-> role_id, text |-> text] ELSE outs[k]]
    ELSE Append(outs, [id |-> role_id, text |-> text])

FinalText_lastRole(outs) == IF outs # <<>> THEN outs[Len(outs)].text ELSE ""

\* role_outputs.get("writer") or (list(role_outputs.values())[-1] if role_outputs else "")
FinalText(outs) ==
    LET writer == {k \in 1..Len(outs) : outs[k].id = "writer" /\ outs[k].text # ""}
    IN IF writer # {} THEN outs[CHOOSE k \in writer : TRUE].text
       ELSE IF outs # <<>> THEN outs[Len(outs)].text ELSE ""

\* mcp_agent.py 434, orchestrator 64-90: status, spec, shared history, start
AgentStart ==
    /\ pc = "start" /\ kind = "agent"
    /\ events' = events \o <<Ev("status", "", ""), Ev("ai_response_start", "", "")>>
    /\ shared_history' = build_shared_history(FALSE)
    /\ role_outputs' = <<>>
    /\ any_streamed' = FALSE
    /\ role_idx' = 0
    /\ pc' = "roles"
    /\ UNCHANGED <<agentFrame, tool_calls_check, content_preview, buffered_chunks, i,
                   envVars, inflight, tool_iterations, messages, role_prefix_sent,
                   role_last_content>>

\* orchestrator 64-84 raise (spec values, history building, model binding):
\* caught at line 255
AgentStartRaises ==
    /\ pc = "start" /\ kind = "agent"
    /\ events' = events \o <<Ev("status", "", ""), Ev("error", "", "")>>
    /\ pc' = "done"
    /\ UNCHANGED <<agentFrame, shared_history, tool_calls_check, content_preview,
                   buffered_chunks, i, envVars, inflight, role_idx, tool_iterations,
                   messages, role_prefix_sent, any_streamed, role_outputs,
                   role_last_content>>

\* orchestrator 92-115: the next role
RoleBegin ==
    /\ pc = "roles" /\ role_idx < Len(roles)
    /\ role_idx' = role_idx + 1
    /\ messages' = <<Msg("system", "prompt of " \o roles[role_idx + 1], <<>>, "", "", 0)>>
                   \o shared_history
    /\ tool_iterations' = 0
    /\ role_last_content' = ""
    /\ role_prefix_sent' = FALSE
    /\ pc' = "r_loop"
    /\ UNCHANGED <<agentFrame, events, shared_history, tool_calls_check,
                   content_preview, buffered_chunks, i, envVars, inflight,
                   any_streamed, role_outputs>>

RoleLoopContinues_offByOne(n) == n <= max_tool_iterations

\* orchestrator 116: while tool_iterations < max_tool_iterations
RoleLoopContinues(n) == n < max_tool_iterations

\* orchestrator 116-128: one more model invocation of the role
RoleIterate ==
    /\ pc = "r_loop" /\ RoleLoopContinues(tool_iterations)
    /\ tool_iterations' = tool_iterations + 1
    /\ tool_calls_check' = <<>>
    /\ content_preview' = FALSE
    /\ buffered_chunks' = 0
    /\ DrawPlan
    /\ pc' = "r_stream"
    /\ UNCHANGED <<agentFrame, events, shared_history, i, inflight, role_idx, messages,
                   role_prefix_sent, any_streamed, role_outputs, role_last_content>>

RoleCeiling_writesBack ==
    /\ pc = "r_loop" /\ ~RoleLoopContinues(tool_iterations)
    /\ role_outputs' = SetOutput(role_outputs, roles[role_idx], role_last_content)
    /\ shared_history' = Append(shared_history,
                                Msg("assistant", Tagged(roles[role_idx], role_last_content),
                                    <<>>, "", "", role_idx))
    /\ pc' = "roles"
    /\ UNCHANGED <<agentFrame, events, tool_calls_check,
                   content_preview, buffered_chunks, i, envVars, inflight, role_idx,
                   tool_iterations, messages, role_prefix_sent, any_streamed,
                   role_last_content>>

\* orchestrator 116, 245-246: the ceiling ends the role
RoleCeiling ==
    /\ pc = "r_loop" /\ ~RoleLoopContinues(tool_iterations)
    /\ role_outputs' = SetOutput(role_outputs, roles[role_idx], role_last_content)
    /\ pc' = "roles"
    /\ UNCHANGED <<agentFrame, events, shared_history, tool_calls_check,
                   content_preview, buffered_chunks, i, envVars, inflight, role_idx,
                   tool_iterations, messages, role_prefix_sent, any_streamed,
                   role_last_content>>

RoleToken_alwaysPrefixed ==
    /\ pc = "r_stream" /\ sent < plan.tok
    /\ sent' = sent + 1
    /\ events' = Append(events,
                        Ev("ai_response_chunk", "", Tagged(roles[role_idx], "token")))
    /\ role_prefix_sent' = TRUE
    /\ any_streamed' = TRUE
    /\ buffered_chunks' = buffered_chunks + 1
    /\ UNCHANGED <<agentFrame, pc, shared_history, tool_calls_check, content_preview,
                   i, plan, freeLeft, tail, inflight, role_idx, tool_iterations,
                   messages, role_outputs, role_last_content>>

\* orchestrator 131-147: one content token
RoleToken ==
    /\ pc = "r_stream" /\ sent < plan.tok
    /\ sent' = sent + 1
    /\ events' = Append(events,
                        Ev("ai_response_chunk", "",
                           IF role_prefix_sent THEN "token"
                           ELSE Tagged(roles[role_idx], "token")))
    /\ role_prefix_sent' = TRUE
    /\ any_streamed' = TRUE
    /\ buffered_chunks' = buffered_chunks + 1
    /\ UNCHANGED <<agentFrame, pc, shared_history, tool_calls_check, content_preview,
                   i, plan, freeLeft, tail, inflight, role_idx, tool_iterations,
                   messages, role_outputs, role_last_content>>

\* orchestrator 148-160: on_chat_model_end
RoleStreamEnd ==
    /\ pc = "r_stream" /\ sent = plan.tok /\ plan.fail = "none"
    /\ tool_calls_check' = plan.calls
    /\ content_preview' = (plan.content \/ plan.tok > 0)
    /\ pc' = "r_decide"
    /\ UNCHANGED <<agentFrame, events, shared_history, buffered_chunks, i, envVars,
                   inflight, role_idx, tool_iterations, messages, role_prefix_sent,
                   any_streamed, role_outputs, role_last_content>>

RoleStreamError_writesBack ==
    /\ pc = "r_stream" /\ sent = plan.tok /\ plan.fail # "none"
    /\ events' = Append(events, Ev("ai_response_chunk", "",
                                   "failed: " \o roles[role_idx]))
    /\ shared_history' = Append(shared_history,
                                Msg("assistant", Tagged(roles[role_idx], role_last_content),
                                    <<>>, "", "", role_idx))
    /\ role_outputs' = SetOutput(role_outputs, roles[role_idx], role_last_content)
    /\ pc' = "roles"
    /\ UNCHANGED <<agentFrame, tool_calls_check, content_preview,
                   buffered_chunks, i, envVars, inflight, role_idx, tool_iterations,
                   messages, role_prefix_sent, any_streamed, role_last_content>>

RoleStreamError_endsRun ==
    /\ pc = "r_stream" /\ sent = plan.tok /\ plan.fail # "none"
    /\ events' = events \o <<Ev("ai_response_chunk", "", "failed: " \o roles[role_idx]),
                              Ev("ai_response_end", "", "")>>
    /\ role_outputs' = SetOutput(role_outputs, roles[role_idx], role_last_content)
    /\ pc' = "done"
    /\ UNCHANGED <<agentFrame, shared_history, tool_calls_check, content_preview,
                   buffered_chunks, i, envVars, inflight, role_idx, tool_iterations,
                   messages, role_prefix_sent, any_streamed, role_last_content>>

\* orchestrator 161-163, 245-246: the stream raised; the role stops
RoleStreamError ==
    /\ pc = "r_stream" /\ sent = plan.tok /\ plan.fail # "none"
    /\ events' = Append(events, Ev("ai_response_chunk", "",
                                   "failed: " \o roles[role_idx]))
    /\ role_outputs' = SetOutput(role_outputs, roles[role_idx], role_last_content)
    /\ pc' = "roles"
    /\ UNCHANGED <<agentFrame, shared_history, tool_calls_check, content_preview,
                   buffered_chunks, i, envVars, inflight, role_idx, tool_iterations,
                   messages, role_prefix_sent, any_streamed, role_last_content>>

\* orchestrator 165-176, 245-246: no tool call; the role's text is written back
RoleAnswer ==
    /\ pc = "r_decide" /\ tool_calls_check = <<>>
    /\ LET role_id == roles[role_idx]
           text == IF content_preview THEN RoleText(role_id) ELSE ""
       IN /\ role_last_content' = text
          /\ messages' = Append(messages,
                                Msg("assistant", text, <<>>, "", "", tool_iterations))
          /\ shared_history' = Append(shared_history,
                                      Msg("assistant", Tagged(role_id, text), <<>>, "", "",
                                          role_idx))
          /\ role_outputs' = SetOutput(role_outputs, role_id, text)
    /\ events' = events \o (IF role_prefix_sent
                            THEN <<Ev("ai_response_chunk", "", "newline")>> ELSE <<>>)
    /\ pc' = "roles"
    /\ UNCHANGED <<agentFrame, tool_calls_check, content_preview, buffered_chunks, i,
                   envVars, inflight, role_idx, tool_iterations, role_prefix_sent,
                   any_streamed>>

\* orchestrator 178-181: the plan is announced
RoleTools ==
    /\ pc = "r_decide" /\ tool_calls_check # <<>>
    /\ events' = Append(events, Ev("tool_plan", "", roles[role_idx]))
    /\ i' = 0
    /\ pc' = "r_tools"
    /\ UNCHANGED <<agentFrame, shared_history, tool_calls_check, content_preview,
                   buffered_chunks, envVars, inflight, role_idx, tool_iterations,
                   messages, role_prefix_sent, any_streamed, role_outputs,
                   role_last_content>>

Rejected_never(allowlist, name) == FALSE

Rejected_alsoWhenEmpty(allowlist, name) == name # "" /\ name \notin allowlist

\* orchestrator 194: the allowlist filter
Rejected(allowlist, name) == allowlist # {} /\ name # "" /\ name \notin allowlist

\* orchestrator 181-202: the next call is outside the allowlist
RoleToolRejected ==
    /\ pc = "r_tools" /\ i < Len(tool_calls_check)
    /\ LET call == CallAt(tool_calls_check, i + 1)
           id == ToolId(call, i + 1)
       IN /\ Rejected(tools_allowlist, call.name)
          /\ events' = Append(events, Ev("tool_error", id, "not allowed"))
          /\ messages' = WithToolMessage(messages, id, call.name, "error", tool_iterations)
    /\ i' = i + 1
    /\ UNCHANGED <<agentFrame, pc, shared_history, tool_calls_check, content_preview,
                   buffered_chunks, envVars, inflight, role_idx, tool_iterations,
                   role_prefix_sent, any_streamed, role_outputs, role_last_content>>

\* orchestrator 181-216: the next call is parsed and announced
RoleToolStart ==
    /\ pc = "r_tools" /\ i < Len(tool_calls_check)
    /\ LET call == CallAt(tool_calls_check, i + 1)
       IN /\ ~Rejected(tools_allowlist, call.name)
          /\ events' = Append(events, Ev("tool_start", ToolId(call, i + 1), ""))
    /\ i' = i + 1
    /\ pc' = "r_resolve"
    /\ UNCHANGED <<agentFrame, shared_history, tool_calls_check, content_preview,
                   buffered_chunks, envVars, inflight, role_idx, tool_iterations,
                   messages, role_prefix_sent, any_streamed, role_outputs,
                   role_last_content>>

\* orchestrator 218-227, 237-243: no registered tool has the name
RoleToolNotFound ==
    /\ pc = "r_resolve"
    /\ LET call == CallAt(tool_calls_check, i)
           id == ToolId(call, i)
       IN /\ call.name \notin Tools
          /\ events' = Append(events, Ev("tool_error", id, "not found"))
          /\ messages' = WithToolMessage(messages, id, call.name, "error", tool_iterations)
    /\ pc' = "r_tools"
    /\ UNCHANGED <<agentFrame, shared_history, tool_calls_check, content_preview,
                   buffered_chunks, i, envVars, inflight, role_idx, tool_iterations,
                   role_prefix_sent, any_streamed, role_outputs, role_last_content>>

\* orchestrator 228-230: await target_tool.ainvoke(parsed_args)
RoleToolInvoke ==
    /\ pc = "r_resolve"
    /\ CallAt(tool_calls_check, i).name \in Tools
    /\ inflight' = inflight + 1
    /\ pc' = "r_await"
    /\ UNCHANGED <<agentFrame, events, shared_history, tool_calls_check,
                   content_preview, buffered_chunks, i, envVars, role_idx,
                   tool_iterations, messages, role_prefix_sent, any_streamed,
                   role_outputs, role_last_content>>

\* orchestrator 230-231, 237-243: ainvoke returned
RoleToolReturns ==
    /\ pc = "r_await"
    /\ LET call == CallAt(tool_calls_check, i)
           id == ToolId(call, i)
       IN /\ call.res = "ok"
          /\ events' = Append(events, Ev("tool_end", id, "result"))
          /\ messages' = WithToolMessage(messages, id, call.name, "result", tool_iterations)
    /\ inflight' = inflight - 1
    /\ pc' = "r_tools"
    /\ UNCHANGED <<agentFrame, shared_history, tool_calls_check, content_preview,
                   buffered_chunks, i, envVars, role_idx, tool_iterations,
                   role_prefix_sent, any_streamed, role_outputs, role_last_content>>

\* orchestrator 232-243: ainvoke raised
RoleToolRaises ==
    /\ pc = "r_await"
    /\ LET call == CallAt(tool_calls_check, i)
           id == ToolId(call, i)
       IN /\ call.res = "raise"
          /\ events' = Append(events, Ev("tool_error", id, "raised"))
          /\ messages' = WithToolMessage(messages, id, call.name, "error", tool_iterations)
    /\ inflight' = inflight - 1
    /\ pc' = "r_tools"
    /\ UNCHANGED <<agentFrame, shared_history, tool_calls_check, content_preview,
                   buffered_chunks, i, envVars, role_idx, tool_iterations,
                   role_prefix_sent, any_streamed, role_outputs, role_last_content>>

\* orchestrator 181, 116: the for loop is over; back to the while test
RoleToolsDone ==
    /\ pc = "r_tools" /\ i = Len(tool_calls_check)
    /\ pc' = "r_loop"
    /\ UNCHANGED <<agentFrame, events, shared_history, tool_calls_check,
                   content_preview, buffered_chunks, i, envVars, inflight, role_idx,
                   tool_iterations, messages, role_prefix_sent, any_streamed,
                   role_outputs, role_last_content>>

\* orchestrator 248-253: every role has run
PipelineEnd ==
    /\ pc = "roles" /\ role_idx = Len(roles)
    /\ events' = events
                 \o (IF ~any_streamed /\ FinalText(role_outputs) # ""
                     THEN <<Ev("ai_response_chunk", "", FinalText(role_outputs))>>
                     ELSE <<>>)
                 \o <<Ev("ai_response_end", "", "")>>
    /\ pc' = "done"
    /\ UNCHANGED <<agentFrame, shared_history, tool_calls_check, content_preview,
                   buffered_chunks, i, envVars, inflight, role_idx, tool_iterations,
                   messages, role_prefix_sent, any_streamed, role_outputs,
                   role_last_content>>

(***************************************************************************)
(* Argument parsing of one tool call: mcp_agent.py 677-696, the same code   *)
(* at agent_orchestrator.py 183-191 and 204-214.  The tool call is drawn    *)
(* from RawCalls.                                                           *)
(***************************************************************************)

\* truth value of a Python value
Truthy(x) ==
    CASE x.t = "none" -> FALSE
      [] x.t = "bool" -> x.v = "True"
      [] x.t = "int" -> x.v # "0"
      [] OTHER -> x.v # ""

OrElse_ifPresent(a, b) == IF a.t # "none" THEN a ELSE b

\* lines 680, 685: a or b
OrElse(a, b) == IF Truthy(a) THEN a ELSE b

\* json.loads(text): ok is FALSE when it raises
JsonLoads(text) ==
    CASE text = "{\"symbol\": \"AAPL\"}" -> [ok |-> TRUE, val |-> Val("dict", "symbol=AAPL")]
      [] text = "{}" -> [ok |-> TRUE, val |-> EmptyDict]
      [] text = "7" -> [ok |-> TRUE, val |-> Val("int", "7")]
      [] OTHER -> [ok |-> FALSE, val |-> None]

\* {"$raw": text}
Wrapped(text) == Val("dict", "$raw=" \o text)

\* lines 688-696: parsed_args of tool_args_raw
Normalize(raw) ==
    IF raw.t = "str"
    THEN IF Truthy(raw)
         THEN IF JsonLoads(raw.v).ok THEN JsonLoads(raw.v).val ELSE Wrapped(raw.v)
         ELSE EmptyDict
    ELSE IF raw.t = "dict" THEN raw
    ELSE Wrapped(raw.v)

\* lines 677-685: tool_args_raw is read from the tool call
ReadArgs ==
    /\ pc = "args"
    /\ tool_args_raw' =
          IF tool_call.shape = "dict"
          THEN OrElse(OrElse(tool_call.fn_arguments, tool_call.args), EmptyDict)
          ELSE OrElse(tool_call.args, EmptyDict)
    /\ pc' = "parse"
    /\ UNCHANGED <<pipeVars, keyVars, wsVars, ambientVars, tool_call, parsed_args>>
    /\ UNCHANGED <<kind, events, shared_history, turnVars, roundVars,
                   non_multimodal_models, envVars, histVars>>

\* lines 688-696: the arguments are normalized
ParseArgs ==
    /\ pc = "parse"
    /\ parsed_args' = Normalize(tool_args_raw)
    /\ pc' = "parsed"
    /\ UNCHANGED <<pipeVars, keyVars, wsVars, ambientVars, tool_call,
                   tool_args_raw>>
    /\ UNCHANGED <<kind, events, shared_history, turnVars, roundVars,
                   non_multimodal_models, envVars, histVars>>

ArgInit ==
    /\ TurnInit /\ AmbientIdle /\ kind = "model" /\ current_model_key = DefaultKey
    /\ pc = "args"
    /\ tool_call \in RawCalls

ArgNext == ReadArgs \/ ParseArgs

ArgSpec == ArgInit /\ [][ArgNext]_vars

Next ==
    \/ StartTurn \/ StartTurnRaises
    \/ RoundBegin \/ BudgetExhausted
    \/ StreamToken \/ StreamEnd \/ StreamMultimodalError \/ StreamOtherError
    \/ RetryToken \/ RetryEnd \/ RetryError
    \/ DecideTools \/ DecideAnswer
    \/ ToolStart \/ ToolNotFound \/ ToolInvoke \/ ToolReturns \/ ToolRaises
    \/ AfterTools
    \/ AgentStart \/ AgentStartRaises
    \/ RoleBegin \/ RoleIterate \/ RoleCeiling
    \/ RoleToken \/ RoleStreamEnd \/ RoleStreamError
    \/ RoleAnswer \/ RoleTools
    \/ RoleToolRejected \/ RoleToolStart \/ RoleToolNotFound \/ RoleToolInvoke
    \/ RoleToolReturns \/ RoleToolRaises \/ RoleToolsDone
    \/ PipelineEnd

Spec == Init /\ [][Next]_vars

(***************************************************************************)
(* The process over several single-agent turns: _non_multimodal_models      *)
(* lives as long as the WebMCPAgent object; every user message of a session *)
(* starts a new chat_stream generator (main.py 542), and the session may    *)
(* have switched its model in between (main.py 638-658).                    *)
(***************************************************************************)
NewTurn ==
    /\ pc = "done" /\ kind = "model"
    /\ session_model' \in DOMAIN LlmProfiles
    /\ current_model_key' = get_current_model_key(session_model')
    /\ profile_id' = ""
    /\ prompt_profiles' = {}
    /\ pc' = "start"
    /\ events' = <<>>
    /\ shared_history' = <<>>
    /\ round_index' = 0
    /\ combined_response_started' = FALSE
    /\ consecutive_tool_failures' = 0
    /\ tool_error_history' = <<>>
    /\ tool_calls_check' = <<>>
    /\ content_preview' = FALSE
    /\ last_usage' = FALSE
    /\ buffered_chunks' = 0
    /\ response_started' = FALSE
    /\ multimodal_fallback_attempted' = FALSE
    /\ force_text_only' = FALSE
    /\ i' = 0
    /\ current_round_has_error' = FALSE
    /\ plan' = NoPlan
    /\ sent' = 0
    /\ freeLeft' = MaxFree
    /\ tail' = NoPlan
    /\ execFailStreak' = 0
    /\ lastExecOk' = FALSE
    /\ fbRound' = 0
    /\ inflight' = 0
    /\ UNCHANGED <<kind, non_multimodal_models, pipeVars, argVars, wsVars, logVars,
                   bindVars, mm_failed>>

ProcInit ==
    /\ TurnInit /\ LogIdle /\ BindIdle /\ kind = "model"
    /\ pc = "start"
    /\ tool_call = NoCall
    /\ session_model \in DOMAIN LlmProfiles
    /\ current_model_key = get_current_model_key(session_model)
    /\ profile_id = ""
    /\ prompt_profiles = {}
    /\ mm_failed = {}

ProcNext ==
    \/ StartTurn \/ StartTurnRaises
    \/ RoundBegin \/ BudgetExhausted
    \/ StreamToken \/ StreamEnd \/ StreamMultimodalError \/ StreamOtherError
    \/ RetryToken \/ RetryEnd \/ RetryError
    \/ DecideTools \/ DecideAnswer
    \/ ToolStart \/ ToolNotFound \/ ToolInvoke \/ ToolReturns \/ ToolRaises
    \/ AfterTools
    \/ NewTurn

ProcSpec == ProcInit /\ [][ProcNext]_vars

(***************************************************************************)
(* The same process when the session also holds user-defined models        *)
(* (session_contexts[sid]["user_models"], ids "user-*"): the next turn of   *)
(* the session may select one of them.                                     *)
(***************************************************************************)
\* main.py 638-658 between two turns, the new id being a user-defined model
NewUserModelTurn ==
    /\ pc = "done" /\ kind = "model"
    /\ session_model' \in DOMAIN UserModels
    /\ current_model_key' = get_current_model_key(session_model')
    /\ profile_id' = ""
    /\ prompt_profiles' = {}
    /\ pc' = "start"
    /\ events' = <<>>
    /\ shared_history' = <<>>
    /\ round_index' = 0
    /\ combined_response_started' = FALSE
    /\ consecutive_tool_failures' = 0
    /\ tool_error_history' = <<>>
    /\ tool_calls_check' = <<>>
    /\ content_preview' = FALSE
    /\ last_usage' = FALSE
    /\ buffered_chunks' = 0
    /\ response_started' = FALSE
    /\ multimodal_fallback_attempted' = FALSE
    /\ force_text_only' = FALSE
    /\ i' = 0
    /\ current_round_has_error' = FALSE
    /\ plan' = NoPlan
    /\ sent' = 0
    /\ freeLeft' = MaxFree
    /\ tail' = NoPlan
    /\ execFailStreak' = 0
    /\ lastExecOk' = FALSE
    /\ fbRound' = 0
    /\ inflight' = 0
    /\ UNCHANGED <<kind, non_multimodal_models, pipeVars, argVars, wsVars, logVars,
                   bindVars, mm_failed>>

UserModelInit ==
    /\ TurnInit /\ LogIdle /\ BindIdle /\ kind = "model"
    /\ pc = "start"
    /\ tool_call = NoCall
    /\ session_model \in ProfileIds
    /\ current_model_key = get_current_model_key(session_model)
    /\ profile_id = ""
    /\ prompt_profiles = {}
    /\ mm_failed = {}

UserModelNext == ProcNext \/ NewUserModelTurn

UserModelSpec == UserModelInit /\ [][UserModelNext]_vars

(***************************************************************************)
(* A turn and the receive loop of its connection: the turn runs as a task  *)
(* (main.py 542-629) while websocket_chat keeps reading messages, so a      *)
(* switch_model message is handled between any two steps of the turn.      *)
(***************************************************************************)
\* main.py 638-658: session_ctx["model"] = new_model
SwitchModel ==
    /\ kind = "model"
    /\ \E new_model \in DOMAIN LlmProfiles \ {session_model} :
           session_model' = new_model
    /\ UNCHANGED <<kind, pc, events, shared_history, turnVars, roundVars,
                   non_multimodal_models, envVars, histVars, pipeVars, keyVars,
                   argVars, wsVars, logVars, bindVars, profile_id, prompt_profiles,
                   mm_failed>>

SwitchNext == Next \/ SwitchModel

SwitchSpec == Init /\ [][SwitchNext]_vars

(***************************************************************************)
(* The turn task of the websocket endpoint: stream_and_persist (main.py     *)
(* 502-585) and stream_and_persist_edit (757-802) consume the generator,    *)
(* send every event to the client, and can be cancelled by a pause message. *)
(* The generator only runs while the task asks it for the next event.       *)
(***************************************************************************)

\* what neither the task nor the websocket changes
generatorVars ==
    <<kind, pc, events, shared_history, turnVars, roundVars, non_multimodal_models,
      envVars, histVars, pipeVars, keyVars, argVars, ambientVars>>

\* the generator is suspended in an await of its own
Awaiting == pc \in {"start", "stream", "retry", "await", "r_stream", "r_await"}

\* main.py 542 / 760: async for asks the generator for its next event
Generate ==
    /\ task = "running" /\ consumed = Len(events)
    /\ Next

\* "".join(parts) / "\n".join(parts)
Join(parts, sep) ==
    LET F[k \in 0..Len(parts)] ==
            IF k = 0 THEN ""
            ELSE IF k = 1 THEN parts[1]
            ELSE F[k - 1] \o sep \o parts[k]
    IN F[Len(parts)]

WithPart_resetAtToolPlan(parts, e) ==
    IF e.type = "tool_plan" THEN <<>>
    ELSE IF e.type \in {"ai_response_chunk", "ai_thinking_chunk"}
    THEN Append(parts, e.content) ELSE parts

\* main.py 549-568 / 767-786: what the event adds to conversation_data
WithPart(parts, e) ==
    IF e.type \in {"ai_response_chunk", "ai_thinking_chunk"}
    THEN Append(parts, e.content) ELSE parts

WithResult(results, e) ==
    IF e.type = "tool_end" THEN Append(results, [success |-> TRUE, error |-> ""])
    ELSE IF e.type = "tool_error"
    THEN Append(results, [success |-> FALSE, error |-> e.content])
    ELSE results

\* main.py 588-593 / 804-809: the text that is saved
AiResponseFinal(parts, results) ==
    LET joined == Join(parts, "")
        error_results == SelectSeq(results, LAMBDA r : ~r.success)
    IN IF joined = "" /\ error_results # <<>>
       THEN "errors:\n"
            \o Join([k \in 1..Len(error_results) |-> error_results[k].error], "\n")
       ELSE joined

\* main.py 594-610 / 810-826: the finally block saves the conversation
SaveConversation(parts, results) ==
    saved' = Append(saved, AiResponseFinal(parts, results))

\* main.py 543-577 / 761-795: the event is sent and accounted for; an error
\* event ends the loop and the task
Send ==
    /\ task = "running" /\ consumed < Len(events)
    /\ LET e == events[consumed + 1]
       IN /\ client' = Append(client, e)
          /\ ws_response_started' = (ws_response_started \/ e.type = "ai_response_start")
          /\ ai_response_parts' = WithPart(ai_response_parts, e)
          /\ mcp_results' = WithResult(mcp_results, e)
          /\ IF e.type = "error"
             THEN /\ task' = "finished"
                  /\ SaveConversation(ai_response_parts', mcp_results')
             ELSE UNCHANGED <<task, saved>>
    /\ consumed' = consumed + 1
    /\ UNCHANGED generatorVars

\* main.py 542 / 760, 586-610: the generator is exhausted
Finish ==
    /\ task = "running" /\ consumed = Len(events) /\ pc = "done"
    /\ task' = "finished"
    /\ SaveConversation(ai_response_parts, mcp_results)
    /\ UNCHANGED <<generatorVars, consumed, client, ws_response_started,
                   ai_response_parts, mcp_results>>

CancelEvents_silent(started) == <<>>

CancelEvents_always(started) == <<Ev("ai_response_end", "", "")>>

\* main.py 578-585 / 796-802: what the CancelledError handler sends
CancelEvents(started) ==
    IF started THEN <<Ev("ai_response_end", "", "")>> ELSE <<>>

\* main.py 631 (pause) cancels the task: CancelledError is raised at the await
\* the task is suspended in.  A send that was under way has reached the
\* client or not.  The finally block then saves what was accounted for.
Cancel ==
    /\ task = "running"
    /\ IF consumed < Len(events)
       THEN \E delivered \in BOOLEAN :
               client' = (IF delivered THEN Append(client, events[consumed + 1])
                          ELSE client)
                         \o CancelEvents(ws_response_started)
       ELSE /\ Awaiting
            /\ client' = client \o CancelEvents(ws_response_started)
    /\ task' = "cancelled"
    /\ SaveConversation(ai_response_parts, mcp_results)
    /\ UNCHANGED <<generatorVars, consumed, ws_response_started, ai_response_parts,
                   mcp_results>>

CancelNext == Generate \/ Send \/ Finish \/ Cancel

CancelSpec == Init /\ [][CancelNext]_vars

\* Every step the interpreter and the environment can take is eventually
\* taken: a model stream and a tool invocation always return or raise.
FairSpec == Spec /\ WF_vars(Next)

(***************************************************************************)
(* Model bindings: ModelManager.get_or_create_llm_instances                 *)
(* (model_manager.py 236-278) and the binding of a user-defined model at    *)
(* the start of a turn (mcp_agent.py 464-486).  Both are synchronous: no    *)
(* other code runs between their first and their last statement.            *)
(***************************************************************************)

\* what building a binding does not touch
bindFrame ==
    <<kind, pc, events, shared_history, turnVars, roundVars, non_multimodal_models,
      envVars, histVars, pipeVars, keyVars, argVars, wsVars, logVars, sessVars>>

\* failed constructions a profile may go through
MaxBuilds == 2

\* model_manager.py 238-240: pid = profile_id or default; unknown -> default
Resolve(requested_id) ==
    IF requested_id # "" /\ requested_id \in DOMAIN LlmProfiles
    THEN requested_id ELSE default_profile_id

Cached_never(cache, pid) == FALSE

\* model_manager.py 242: if pid in self._llm_cache
Cached(cache, pid) == pid \in DOMAIN cache

\* model_manager.py 250-253 / mcp_agent.py 468-471: the override
Overridden(env, cfg) ==
    [n \in EnvNames |->
        IF n = "OPENAI_API_KEY" /\ cfg.api_key # "" THEN cfg.api_key
        ELSE IF n = "OPENAI_BASE_URL" /\ cfg.base_url # "" THEN cfg.base_url
        ELSE env[n]]

\* model_manager.py 268-273 / mcp_agent.py 478-482: the finally block puts
\* back the values that were not None
Restored(env, prev) ==
    [n \in EnvNames |-> IF prev[n] # Unset THEN prev[n] ELSE env[n]]

\* the bundle built by the n-th construction for pid
Bundle(pid, n) == [pid |-> pid, serial |-> n]

\* model_manager.py 242-243: the bundle is in the cache
GetCached ==
    \E p \in {"", "nosuch"} \cup DOMAIN LlmProfiles :
        /\ returned.status # "fallback" \/ p = requested
        /\ Cached(llm_cache, Resolve(p))
        /\ requested' = p
        /\ returned' = Outcome("returned", llm_cache[Resolve(p)], FALSE)
        /\ UNCHANGED <<bindFrame, logVars, environ, llm_cache, constructions>>

\* model_manager.py 245-278: the bundle is constructed and cached
BuildBundle ==
    \E p \in {"", "nosuch"} \cup DOMAIN LlmProfiles :
        LET pid == Resolve(p)
            n == constructions[pid] + 1
        IN /\ returned.status # "fallback" \/ p = requested
           /\ ~Cached(llm_cache, pid)
           /\ environ' = Restored(Overridden(environ, LlmProfiles[pid]), environ)
           /\ constructions' = [constructions EXCEPT ![pid] = n]
           /\ llm_cache' = [q \in DOMAIN llm_cache \cup {pid} |->
                                IF q = pid THEN Bundle(pid, n) ELSE llm_cache[q]]
           /\ requested' = p
           /\ returned' = Outcome("returned", Bundle(pid, n), TRUE)
           /\ UNCHANGED <<bindFrame, logVars>>

\* model_manager.py 245-273: ChatOpenAI(...) or bind_tools raises
BuildRaises ==
    \E p \in {"", "nosuch"} \cup DOMAIN LlmProfiles :
        LET pid == Resolve(p)
        IN /\ returned.status # "fallback" \/ p = requested
           /\ ~Cached(llm_cache, pid)
           /\ constructions[pid] < MaxBuilds
           /\ environ' = Restored(Overridden(environ, LlmProfiles[pid]), environ)
           /\ constructions' = [constructions EXCEPT ![pid] = @ + 1]
           /\ requested' = p
           /\ returned' = Outcome("raised", NoBundle, TRUE)
           /\ UNCHANGED <<bindFrame, logVars, llm_cache>>

\* mcp_agent.py 464-482: the model of a user is bound for the turn
BindUserModel ==
    \E u \in DOMAIN UserModels :
        /\ returned.status # "fallback"
        /\ environ' = Restored(Overridden(environ, UserModels[u]), environ)
        /\ requested' = u
        /\ returned' = Outcome("returned", Bundle(u, 0), TRUE)
        /\ UNCHANGED <<bindFrame, logVars, llm_cache, constructions>>

\* mcp_agent.py 464-486: the construction raises; the turn goes on to
\* _get_or_create_llm_instances(profile_id)
BindUserModelRaises ==
    \E u \in DOMAIN UserModels :
        /\ returned.status # "fallback"
        /\ environ' = Restored(Overridden(environ, UserModels[u]), environ)
        /\ requested' = u
        /\ returned' = Outcome("fallback", NoBundle, TRUE)
        /\ UNCHANGED <<bindFrame, logVars, llm_cache, constructions>>

\* the environment of the process: each variable set or not
BindInit ==
    /\ TurnInit /\ kind = "model" /\ pc = "start" /\ tool_call = NoCall
    /\ current_model_key = DefaultKey
    /\ LogIdle /\ SessIdle
    /\ environ \in [EnvNames -> {Unset, "env"}]
    /\ llm_cache = <<>>
    /\ constructions = [p \in DOMAIN LlmProfiles |-> 0]
    /\ requested = ""
    /\ returned = Outcome("none", NoBundle, FALSE)

BindNext ==
    GetCached \/ BuildBundle \/ BuildRaises \/ BindUserModel \/ BindUserModelRaises

BindSpec == BindInit /\ [][BindNext]_vars


(***************************************************************************)
(* Suppression of the transport log: every model stream (mcp_agent.py       *)
(* 521-589, retry 611-646; agent_orchestrator.py 123-160) and every tool    *)
(* invocation (mcp_agent.py 716-729) reads the level of the 'mcp' logger,   *)
(* raises it to CRITICAL and puts the level it read back when the call is   *)
(* over.  The logger belongs to the process; the generators of different    *)
(* sessions run interleaved, each suspended in its own call.                *)
(***************************************************************************)

\* what the suppression does not touch
logFrame ==
    <<kind, pc, events, shared_history, turnVars, roundVars, non_multimodal_models,
      envVars, histVars, pipeVars, keyVars, argVars, wsVars, bindVars, sessVars>>

\* calls a session may start
MaxCalls == 3

\* lines 524-526 / 718-720: original_level = mcp_logger.level
Saved(levels, s, level) == [levels EXCEPT ![s] = level]

\* lines 508-529: a round's model stream starts, at the start of the turn
\* or after the tool calls of the round before
EnterStream ==
    \E s \in Sessions :
        /\ in_call[s] \in {"idle", "answered"} /\ callsLeft[s] > 0
        /\ original_level' = Saved(original_level, s, mcp_level)
        /\ mcp_level' = "CRITICAL"
        /\ in_call' = [in_call EXCEPT ![s] = "stream"]
        /\ callsLeft' = [callsLeft EXCEPT ![s] = @ - 1]
        /\ UNCHANGED <<logFrame, initial_level>>

\* lines 529-589: the stream is over; finally: setLevel(original_level)
LeaveStream ==
    \E s \in Sessions :
        /\ in_call[s] = "stream"
        /\ mcp_level' = original_level[s]
        /\ in_call' = [in_call EXCEPT ![s] = "decided"]
        /\ UNCHANGED <<logFrame, original_level, callsLeft, initial_level>>

\* lines 588-595: the stream raised the multimodal failure
StreamFails ==
    \E s \in Sessions :
        /\ in_call[s] = "stream"
        /\ mcp_level' = original_level[s]
        /\ in_call' = [in_call EXCEPT ![s] = "failed"]
        /\ UNCHANGED <<logFrame, original_level, callsLeft, initial_level>>

\* lines 611-614: the text-only retry raises the level again; original_level
\* is the one read at line 525
EnterRetry ==
    \E s \in Sessions :
        /\ in_call[s] = "failed"
        /\ mcp_level' = "CRITICAL"
        /\ in_call' = [in_call EXCEPT ![s] = "retry"]
        /\ UNCHANGED <<logFrame, original_level, callsLeft, initial_level>>

\* lines 614-646: the retry is over; finally: setLevel(original_level)
LeaveRetry ==
    \E s \in Sessions :
        /\ in_call[s] = "retry"
        /\ mcp_level' = original_level[s]
        /\ in_call' = [in_call EXCEPT ![s] = "decided"]
        /\ UNCHANGED <<logFrame, original_level, callsLeft, initial_level>>

\* lines 676-722: the next tool call of the round is invoked
EnterTool ==
    \E s \in Sessions :
        /\ in_call[s] \in {"decided", "answered"} /\ callsLeft[s] > 0
        /\ original_level' = Saved(original_level, s, mcp_level)
        /\ mcp_level' = "CRITICAL"
        /\ in_call' = [in_call EXCEPT ![s] = "tool"]
        /\ callsLeft' = [callsLeft EXCEPT ![s] = @ - 1]
        /\ UNCHANGED <<logFrame, initial_level>>

\* lines 722-729: the invocation returned or raised; finally: setLevel(original_level)
LeaveTool ==
    \E s \in Sessions :
        /\ in_call[s] = "tool"
        /\ mcp_level' = original_level[s]
        /\ in_call' = [in_call EXCEPT ![s] = "answered"]
        /\ UNCHANGED <<logFrame, original_level, callsLeft, initial_level>>

\* the level the deployment configured for the logger
LogInit ==
    /\ TurnInit /\ kind = "model" /\ pc = "start" /\ tool_call = NoCall
    /\ current_model_key = DefaultKey
    /\ SessIdle
    /\ mcp_level \in {"NOTSET", "WARNING", "DEBUG"}
    /\ initial_level = mcp_level
    /\ original_level = [s \in Sessions |-> "NOTSET"]
    /\ in_call = [s \in Sessions |-> "idle"]
    /\ callsLeft \in [Sessions -> 1..MaxCalls]
    /\ BindIdle

LogNext ==
    \/ EnterStream \/ LeaveStream \/ StreamFails \/ EnterRetry \/ LeaveRetry
    \/ EnterTool \/ LeaveTool

LogSpec == LogInit /\ [][LogNext]_vars


(***************************************************************************)
(* Properties                                                              *)
(***************************************************************************)
Count(type) == Cardinality({k \in 1..Len(events) : events[k].type = type})

IsToolMsgOf(m, rnd) == m.role = "tool" /\ m.rnd = rnd

\* C1: single-agent loop: whenever the model is (about to be) invoked, every
\* ToolCall id carried by an assistant message of shared_history is answered by
\* exactly one later tool message of the same round with that tool_call_id,
\* whatever the tools did and whether or not the fallback was triggered.
C1_EveryCallAnsweredOnce ==
    (kind = "model" /\ pc \in {"loop", "stream", "retry"}) =>
        \A p \in 1..Len(shared_history) :
            LET a == shared_history[p]
            IN a.role = "assistant" =>
                \A k \in 1..Len(a.tool_calls) :
                    a.tool_calls[k].id # "" =>
                        Cardinality({q \in (p + 1)..Len(shared_history) :
                            /\ IsToolMsgOf(shared_history[q], a.rnd)
                            /\ shared_history[q].tool_call_id = a.tool_calls[k].id}) = 1

\* a later model invocation whose history holds a failed, a successful and a
\* multi-call batch, after a fallback
C1_Witness ==
    /\ kind = "model" /\ pc = "stream" /\ fbRound > 0
    /\ \E p \in 1..Len(shared_history) : Len(shared_history[p].tool_calls) > 1
    /\ \E q \in 1..Len(shared_history) :
           shared_history[q].role = "tool" /\ shared_history[q].content = "result"

\* C2: a single-agent turn that ends without an error event has yielded
\* exactly one ai_response_start and exactly one ai_response_end.
C2_OneStartOneEnd ==
    (kind = "model" /\ pc = "done" /\ Count("error") = 0) =>
        (Count("ai_response_start") = 1 /\ Count("ai_response_end") = 1)

\* C3: a turn (single-agent or pipeline) yields at most one terminal event,
\* ai_response_end or error; it has ended iff it yielded one; error is the
\* last event, and ai_response_end is followed by at most one token_usage.
C3_OneTerminalEvent ==
    LET n == Len(events)
        terminal == Count("ai_response_end") + Count("error")
    IN /\ terminal <= 1
       /\ (pc = "done") <=> (terminal = 1)
       /\ \A k \in 1..n :
            /\ events[k].type = "error" => k = n
            /\ events[k].type = "ai_response_end" =>
                  (k = n \/ (k = n - 1 /\ events[n].type = "token_usage"))

C3_Witness ==
    /\ pc = "done" /\ Count("tool_plan") > 0
    /\ events[Len(events)].type = "token_usage"

\* C4: the single-agent loop never runs more than max_rounds rounds, a round
\* that ends without tool calls ends the turn in that round, and every turn
\* terminates.
C4_TerminatesWithinBudget ==
    /\ [](round_index <= max_rounds)
    /\ [][(kind = "model" /\ pc = "decide" /\ tool_calls_check = <<>>)
            => (pc' = "done" /\ round_index' = round_index)]_vars
    /\ (kind = "model") ~> (pc = "done")

C4_Witness ==
    /\ kind = "model" /\ pc = "done" /\ round_index = max_rounds
    /\ tool_calls_check = <<>>

\* C5: when the last of the max_rounds rounds also ended in a tool request,
\* the turn ends with the budget text as ai_response_chunk followed by
\* ai_response_end, and without any error event.
C5_BudgetExhaustedGracefully ==
    (kind = "model" /\ pc = "done" /\ round_index = max_rounds
        /\ tool_calls_check # <<>>) =>
        LET n == Len(events)
        IN /\ n >= 2
           /\ events[n - 1] = Ev("ai_response_chunk", "", "budget")
           /\ events[n].type = "ai_response_end"
           /\ Count("error") = 0

C5_Witness ==
    /\ kind = "model" /\ pc = "done" /\ round_index = max_rounds
    /\ tool_calls_check # <<>> /\ Count("fallback_triggered") > 0

NoExecutionSucceeded == Count("tool_end") = 0

FallbackMessages ==
    Cardinality({q \in 1..Len(shared_history) :
                    shared_history[q] = Msg("user", "fallback", <<>>, "", "",
                                            shared_history[q].rnd)})

C7_PendingCallsShortCircuited ==
    (kind = "model" /\ pc = "resolve" /\ i > 1
        /\ execFailStreak - (i - 1) < max_consecutive_failures) =>
        execFailStreak < max_consecutive_failures

SumCalls(h) ==
    LET F[k \in 0..Len(h)] == IF k = 0 THEN 0 ELSE F[k - 1] + Len(h[k].tool_calls)
    IN F[Len(h)]

\* C7 amended: the threshold is tested once per round, after the for loop:
\* every call of every tool-call list is started and answered, whatever
\* failed before it, and a fallback is only ever injected as the last step of
\* a round, after which the loop is at its next round.
C7_ThresholdTestedAfterBatch ==
    (kind = "model" /\ pc = "loop") =>
        /\ Count("tool_start") = SumCalls(shared_history)
        /\ Count("tool_end") + Count("tool_error") = SumCalls(shared_history)
        /\ \A k \in 1..Len(events) :
              (events[k].type = "fallback_triggered" /\ k < Len(events)) =>
                  events[k + 1].type \notin {"tool_start", "tool_end", "tool_error"}

\* a call is started although 3 executions in a row have just failed
C7_Witness ==
    /\ kind = "model" /\ pc = "resolve" /\ i > 1
    /\ execFailStreak >= max_consecutive_failures

\* C8: at the start of a round the counter is 0 if the most recent tool
\* execution succeeded, and it equals the number of tool executions that
\* failed since the last success or fallback.
C8_CounterCountsFailedExecutions ==
    (kind = "model" /\ pc = "loop") =>
        /\ lastExecOk => consecutive_tool_failures = 0
        /\ consecutive_tool_failures = execFailStreak

\* C9: the round that follows a fallback ends in ANSWER_DECIDED.
C9_AnswerAfterFallback ==
    (kind = "model" /\ pc = "decide" /\ fbRound > 0 /\ round_index = fbRound + 1) =>
        tool_calls_check = <<>>

InBatch == pc \in {"tools", "resolve", "await", "r_tools", "r_resolve", "r_await"}

\* the events yielded since the tool_plan of the batch under way
BatchEvents ==
    LET plans == {k \in 1..Len(events) : events[k].type = "tool_plan"}
        last == CHOOSE k \in plans : \A m \in plans : m <= k
    IN SubSeq(events, last + 1, Len(events))

\* calls of the batch that are through: announced or rejected, and answered
CallsThrough == IF pc \in {"resolve", "await", "r_resolve", "r_await"} THEN i - 1 ELSE i

\* the tool events the first n calls of the list yield when they run one after
\* the other, in the order of the list
SequentialEvents(calls, n) ==
    LET F[k \in 0..n] ==
            IF k = 0 THEN <<>>
            ELSE LET c == calls[k]
                     id == ToolId(c, k)
                 IN F[k - 1] \o
                    (IF kind = "agent" /\ Rejected(tools_allowlist, c.name)
                     THEN <<Ev("tool_error", id, "not allowed")>>
                     ELSE <<Ev("tool_start", id, ""),
                            IF c.name \notin Tools THEN Ev("tool_error", id, "not found")
                            ELSE IF c.res = "ok" THEN Ev("tool_end", id, "result")
                            ELSE Ev("tool_error", id, "raised")>>)
    IN F[n]

ToolMessageIds(h, rnd) ==
    LET sel == SelectSeq(h, LAMBDA m : IsToolMsgOf(m, rnd))
    IN [k \in 1..Len(sel) |-> sel[k].tool_call_id]

\* C10: inside a batch (single-agent or pipeline) the calls run one after the
\* other in the order of the list: the tool events yielded so far are those
\* of the calls that are through, in list order, each tool_start at once
\* followed by its own tool_end or tool_error, plus the tool_start of the one
\* call under way; at most one invocation is awaited; and the tool messages
\* of the batch are in list order.
C10_SequentialInOrder ==
    InBatch =>
        /\ inflight <= 1
        /\ inflight = 1 <=> pc \in {"await", "r_await"}
        /\ BatchEvents =
              SequentialEvents(tool_calls_check, CallsThrough)
              \o (IF CallsThrough < i
                  THEN <<Ev("tool_start", ToolId(tool_calls_check[i], i), "")>>
                  ELSE <<>>)
        /\ ToolMessageIds(IF kind = "agent" THEN messages ELSE shared_history,
                          IF kind = "agent" THEN tool_iterations ELSE round_index)
              = [k \in 1..CallsThrough |-> ToolId(tool_calls_check[k], k)]

C10_Witness ==
    /\ pc = "await" /\ i = 3
    /\ Count("tool_error") > 0

IsFinish(e) == e.type \in {"tool_end", "tool_error"}

\* C11: single-agent loop: every tool call yields exactly one tool_start,
\* before it is resolved or invoked, and that tool_start is at once followed
\* by exactly one tool_end or tool_error with the same tool_id: tool_end only
\* when the invocation returned, tool_error when the name did not resolve or
\* the invocation raised.  The first tool_start of a round comes right after
\* the round's tool_plan.
C11_StartThenOneFinish ==
    kind = "model" =>
        LET n == Len(events)
        IN /\ \A k \in 1..n :
                /\ events[k].type = "tool_start" =>
                      /\ k > 1
                      /\ events[k - 1].type = "tool_plan" \/ IsFinish(events[k - 1])
                      /\ k < n => /\ IsFinish(events[k + 1])
                                  /\ events[k + 1].tool_id = events[k].tool_id
                      /\ k = n => pc \in {"resolve", "await"}
                /\ IsFinish(events[k]) =>
                      /\ k > 1
                      /\ events[k - 1].type = "tool_start"
                      /\ events[k - 1].tool_id = events[k].tool_id
           /\ pc \in {"resolve", "await"} =>
                 events[n] = Ev("tool_start", ToolId(tool_calls_check[i], i), "")
           /\ pc = "await" => tool_calls_check[i].name \in Tools
           /\ (pc = "tools" /\ i > 0) =>
                 LET c == tool_calls_check[i]
                 IN /\ events[n].tool_id = ToolId(c, i)
                    /\ events[n].type = "tool_end" <=> (c.name \in Tools /\ c.res = "ok")
                    /\ events[n].type = "tool_error" <=>
                          (c.name \notin Tools \/ c.res = "raise")
           /\ (pc = "tools" /\ i = 0) => events[n].type = "tool_plan"

\* a batch of three calls is through: the second did not resolve and the
\* third raised
C11_Witness ==
    /\ kind = "model" /\ pc = "tools" /\ i = 3
    /\ events[Len(events)] = Ev("tool_error", "b", "raised")
    /\ events[Len(events) - 2] = Ev("tool_error", "a", "not found")

ErrorMessages(h, rnd) ==
    Cardinality({q \in 1..Len(h) : IsToolMsgOf(h[q], rnd) /\ h[q].content = "error"})

ToolMessages(h, rnd) == Cardinality({q \in 1..Len(h) : IsToolMsgOf(h[q], rnd)})

ErrorEvents(evs) ==
    Cardinality({k \in 1..Len(evs) : evs[k].type = "tool_error"})

\* C12: a tool call whose name does not resolve or whose invocation raises
\* is recovered locally (single-agent loop and pipeline): a tool message with
\* the error text and the call's id is appended to the message list the next
\* model invocation receives; the turn does not end (no error event); and
\* the calls after it in the list are still answered.
C12_ToolFailuresRecoveredLocally ==
    LET h == IF kind = "agent" THEN messages ELSE shared_history
        rnd == IF kind = "agent" THEN tool_iterations ELSE round_index
        n == Len(events)
    IN /\ Count("tool_error") > 0 => Count("error") = 0
       /\ (pc \in {"tools", "r_tools"} /\ i > 0 /\ events[n].type = "tool_error") =>
             /\ h[Len(h)] = Msg("tool", "error", <<>>, events[n].tool_id,
                                tool_calls_check[i].name, rnd)
       /\ (pc \in {"tools", "r_tools"} /\ i = Len(tool_calls_check)) =>
             /\ ToolMessages(h, rnd) = Len(tool_calls_check)
             /\ ErrorMessages(h, rnd) = ErrorEvents(BatchEvents)
       /\ (pc \in {"stream", "retry"}) =>
             Cardinality({q \in 1..Len(h) : h[q].role = "tool" /\ h[q].content = "error"})
                 = Count("tool_error")
       /\ (pc = "r_stream" /\ tool_iterations > 1) =>
             ErrorMessages(h, tool_iterations - 1) = ErrorEvents(BatchEvents)

\* the model is invoked again after a batch in which a call did not resolve
\* and a later call was still answered
C12_Witness ==
    /\ pc \in {"stream", "r_stream"}
    /\ \E k \in 1..Len(events) : events[k] = Ev("tool_error", "b", "not found")
    /\ \E k \in 1..Len(events) : events[k] = Ev("tool_error", "a", "raised")

\* the value the model supplied as arguments
Supplied(call) ==
    IF call.shape = "dict" /\ call.fn_arguments # None THEN call.fn_arguments
    ELSE call.args

\* what the claim says a supplied value v is normalized to
NormalizedAsStated(v, parsed) ==
    CASE v.t = "str" -> IF JsonLoads(v.v).ok THEN parsed = JsonLoads(v.v).val
                        ELSE parsed = Wrapped(v.v)
      [] v.t = "dict" -> parsed = v
      [] v.t = "none" -> TRUE
      [] OTHER -> parsed = Wrapped(v.v)

\* C13 as stated: whatever value the model supplied as arguments, text that
\* parses yields the parsed value, text that fails to parse yields
\* {"$raw": text}, a mapping is passed unchanged, and any other scalar v,
\* 0 and false included, yields {"$raw": str(v)}.
C13_ArgumentsNormalized ==
    pc = "parsed" => NormalizedAsStated(Supplied(tool_call), parsed_args)

Falsy == {None, Val("str", ""), EmptyDict, Val("int", "0"), Val("bool", "False")}

\* C13 amended: a falsy value (None, "", {}, 0, False) is passed over: the
\* arguments are the first value that is not falsy among function.arguments
\* and args (args alone for a tool-call object), normalized as stated, and
\* the empty mapping when there is none.
C13_TruthyArgumentsNormalized ==
    pc = "parsed" =>
        LET srcs == IF tool_call.shape = "dict"
                    THEN <<tool_call.fn_arguments, tool_call.args>>
                    ELSE <<tool_call.args>>
            given == {k \in DOMAIN srcs : srcs[k] \notin Falsy}
        IN IF given = {} THEN parsed_args = EmptyDict
           ELSE LET first == CHOOSE k \in given : \A m \in given : k <= m
                IN /\ srcs[first].t # "none"
                   /\ NormalizedAsStated(srcs[first], parsed_args)

\* function.arguments is 0 and args is text that does not parse
C13_Witness ==
    /\ pc = "parsed"
    /\ tool_call = RawCall("dict", Val("int", "0"), Val("str", "{oops"))
    /\ parsed_args = Wrapped("{oops")

C15_UnstreamedAnswerDelivered ==
    (kind = "model" /\ pc = "done" /\ round_index > 0 /\ tool_calls_check = <<>>
        /\ buffered_chunks = 0 /\ content_preview) =>
        \E k \in 1..(Len(events) - 1) :
            /\ events[k] = Ev("ai_response_chunk", "", "final")
            /\ events[k + 1].type = "ai_response_end"

\* C16: in one round the model is invoked at most twice: the first
\* invocation is retried only when it failed with the multimodal signature
\* and no retry was made yet; after a failure of another kind, and after the
\* retry whatever it did, the round is decided, and the model is only
\* invoked again by the next round.
C16_AtMostOneRetry ==
    /\ [][(pc = "stream" /\ pc' = "retry") =>
            /\ plan.fail = "mm"
            /\ ~multimodal_fallback_attempted /\ multimodal_fallback_attempted'
            /\ round_index' = round_index]_vars
    /\ [][(pc = "stream" /\ pc' # "stream" /\ plan.fail # "mm") => pc' = "decide"]_vars
    /\ [][pc' = "retry" => pc \in {"stream", "retry"}]_vars
    /\ [][pc = "retry" => (pc' \in {"retry", "decide"} /\ round_index' = round_index)]_vars
    /\ [][(pc' = "stream" /\ pc # "stream") =>
            (pc = "loop" /\ round_index' = round_index + 1)]_vars

\* the retry failed and the round is decided
C16_Witness ==
    /\ kind = "model" /\ pc = "decide"
    /\ multimodal_fallback_attempted /\ plan.rfail

\* C17: a turn whose first invocation failed with the multimodal signature
\* and whose text-only retry failed too ends with an error event and
\* without ai_response_end.
C17_FailedRetryEndsInError ==
    (kind = "model" /\ pc = "done" /\ multimodal_fallback_attempted /\ plan.rfail) =>
        /\ events[Len(events)].type = "error"
        /\ Count("ai_response_end") = 0

\* C18: the set of identities marked text-only only grows, and a
\* single-agent turn that starts while its identity is marked passes
\* text_only = True to the history builder, so that its shared history is
\* built without non-text content.
C18_TextOnlyMarksKept ==
    /\ [][non_multimodal_models \subseteq non_multimodal_models']_vars
    /\ [][(pc = "start" /\ pc' = "loop"
            /\ current_model_key \in non_multimodal_models) =>
            /\ force_text_only'
            /\ shared_history' = <<Msg("user", "input as text", <<>>, "", "", 0)>>]_vars
    /\ [][(pc = "start" /\ pc' = "loop"
            /\ current_model_key \notin non_multimodal_models) =>
            ~force_text_only']_vars

\* a turn runs text-only for one identity while the other is not marked
C18_Witness ==
    /\ pc = "stream" /\ force_text_only
    /\ non_multimodal_models = {current_model_key}

\* C19 as stated: while the first text-only retry of the process is under
\* way, and after it has failed, the identity is not marked.
C19_FailedRetryLeavesUnmarked ==
    (kind = "model" /\ round_index = 1 /\ multimodal_fallback_attempted
        /\ (pc = "retry" \/ plan.rfail)) =>
        current_model_key \notin non_multimodal_models

\* C19 amended: an identity is marked when the multimodal failure of an
\* invocation for it is detected, before the text-only retry starts: it is
\* marked while the retry runs and stays marked whether the retry succeeds
\* or fails; nothing else adds to the set.
C19_MarkedWhenDetected ==
    /\ [](multimodal_fallback_attempted => current_model_key \in non_multimodal_models)
    /\ [][non_multimodal_models' # non_multimodal_models =>
            /\ pc = "stream" /\ plan.fail = "mm" /\ pc' = "retry"
            /\ non_multimodal_models' = non_multimodal_models \cup {current_model_key}]_vars

\* the retry has failed and the identity is marked
C19_Witness ==
    /\ kind = "model" /\ pc = "decide" /\ multimodal_fallback_attempted
    /\ plan.rfail /\ current_model_key \in non_multimodal_models

\* content of the reply has been sent to the client
StreamingBegun == \E k \in 1..Len(client) : client[k].type = "ai_response_chunk"

\* C20: when the turn task is cancelled after content was streamed to the
\* client, the last thing sent before the cancellation leaves the task is
\* an ai_response_end, whatever the task was awaiting: a model token, a
\* tool, or the send of an event.
C20_TerminatorBeforeCancellation ==
    (task = "cancelled" /\ StreamingBegun) =>
        client[Len(client)] = Ev("ai_response_end", "", "")

\* cancelled while a tool was awaited, after a token had been streamed
C20_Witness ==
    /\ task = "cancelled" /\ pc = "await" /\ StreamingBegun
    /\ client[Len(client)].type = "ai_response_end"

EndsSent == Cardinality({k \in 1..Len(client) : client[k].type = "ai_response_end"})

\* C21 as stated: when the turn task is cancelled before any chunk of the
\* reply has reached the client, no ai_response_end is sent, in a
\* single-agent turn and in a pipeline turn.
C21_NoTerminatorBeforeStreaming ==
    (task = "cancelled" /\ ~StreamingBegun) => EndsSent = 0

\* C21 amended: what decides is whether the send of ai_response_start has
\* returned: a task cancelled before that sends no ai_response_end; a task
\* cancelled after it sends one as its last message, also when no token
\* has been streamed yet (a pipeline turn sends ai_response_start before
\* its first role runs).
C21_TerminatorIffStartSent ==
    task = "cancelled" =>
        /\ ~ws_response_started => EndsSent = 0
        /\ ws_response_started =>
              /\ client[Len(client)] = Ev("ai_response_end", "", "")
              /\ \E k \in 1..Len(client) : client[k].type = "ai_response_start"

\* a pipeline turn cancelled while its first role awaits its first token
C21_Witness ==
    /\ task = "cancelled" /\ kind = "agent" /\ pc = "r_stream"
    /\ ~StreamingBegun /\ EndsSent = 1

IsPrefix(a, b) == Len(a) <= Len(b) /\ SubSeq(b, 1, Len(a)) = a

\* C22: in a single-agent turn every step only appends to shared_history:
\* the messages present before a step are an unchanged prefix of those
\* present after it (assistant tool-call message, tool messages, fallback
\* instruction, multimodal downgrade).
C22_HistoryOnlyAppended ==
    [][kind = "model" => IsPrefix(shared_history, shared_history')]_vars

\* a turn that went through a multimodal downgrade and a fallback
C22_Witness ==
    /\ kind = "model" /\ pc = "loop" /\ fbRound > 0
    /\ current_model_key \in non_multimodal_models
    /\ Len(shared_history) >= 6

\* C23: a pipeline run that yields no error event yields ai_response_start
\* exactly once, before the first role's model is invoked, and
\* ai_response_end exactly once, as its last event, after the last role has
\* completed, whatever the roles did (tool iterations, failed invocations).
C23_PipelineOneStartOneEnd ==
    (kind = "agent" /\ Count("error") = 0) =>
        LET n == Len(events)
        IN /\ Count("ai_response_start") <= 1
           /\ pc # "start" =>
                 /\ Count("ai_response_start") = 1
                 /\ events[2].type = "ai_response_start"
           /\ pc = "start" => (n = 0 /\ role_idx = 0 /\ tool_iterations = 0)
           /\ pc # "done" => Count("ai_response_end") = 0
           /\ pc = "done" =>
                 /\ Count("ai_response_end") = 1
                 /\ events[n].type = "ai_response_end"
                 /\ role_idx = Len(roles)
                 /\ Len(role_outputs) = Len(roles)

\* a run of three roles has ended without error event; the first role's
\* invocation failed and a later role went through tool iterations
C23_Witness ==
    /\ kind = "agent" /\ pc = "done" /\ Len(roles) = 3 /\ Count("error") = 0
    /\ Count("tool_plan") > 0
    /\ \E k \in 1..Len(events) : events[k].content = "failed: planner"

\* C24: in the message list of every later model invocation of a role, each
\* tool message is preceded by an assistant message that carries the tool
\* call it answers.
C24_RoleToolCallsAnnounced ==
    (pc = "r_stream" /\ tool_iterations > 1) =>
        \A q \in 1..Len(messages) :
            messages[q].role = "tool" =>
                \E p \in 1..(q - 1) :
                    /\ messages[p].role = "assistant"
                    /\ \E k \in 1..Len(messages[p].tool_calls) :
                          ToolId(messages[p].tool_calls[k], k) = messages[q].tool_call_id

\* the messages of the shared history that follow the seed history
WrittenBack == SubSeq(shared_history, 2, Len(shared_history))

\* "[role_id] text" for the text a role can end with
IsTaggedTextOf(content, role_id) ==
    content \in {"[" \o role_id \o "] " \o "text of " \o role_id,
                 "[" \o role_id \o "] "}

\* C25 as stated: after a pipeline run over roles r1..rn the shared history is
\* the seed history followed by exactly one assistant message "[ri] text" per
\* role in order, also for a role that exhausted its ceiling or whose
\* invocation failed.
C25_OneTaggedTextPerRole ==
    (kind = "agent" /\ pc = "done" /\ Count("error") = 0) =>
        /\ Len(WrittenBack) = Len(roles)
        /\ \A k \in 1..Len(roles) :
              /\ WrittenBack[k].role = "assistant"
              /\ IsTaggedTextOf(WrittenBack[k].content, roles[k])

\* C25 (amended): roles run in the order of the AgentSpec, and a role that
\* ends a round without tool call appends exactly one assistant message
\* "[role_id] text" to shared_history; a role that exhausts its ceiling or
\* whose invocation fails appends nothing. So the shared history is the seed
\* followed by at most one tagged message per role that has run, in role
\* order, and the messages of a role begin with its system prompt followed
\* by the shared history as its predecessors left it.
C25_TaggedTextOfAnsweringRoles ==
    /\ [](kind = "agent" /\ pc \notin {"start"} /\ Count("error") = 0 =>
            /\ shared_history[1] = build_shared_history(FALSE)[1]
            /\ \A p \in 1..Len(WrittenBack) :
                  /\ WrittenBack[p].role = "assistant"
                  /\ WrittenBack[p].rnd \in 1..role_idx
                  /\ IsTaggedTextOf(WrittenBack[p].content, roles[WrittenBack[p].rnd])
                  /\ p > 1 => WrittenBack[p - 1].rnd < WrittenBack[p].rnd
            /\ pc \in {"r_loop", "r_stream", "r_decide", "r_tools", "r_resolve",
                        "r_await"} =>
                  /\ messages[1].role = "system"
                  /\ SubSeq(messages, 2, 1 + Len(shared_history)) = shared_history
                  /\ \A p \in 1..Len(WrittenBack) : WrittenBack[p].rnd < role_idx)
    /\ [][kind = "agent" /\ pc # "start" =>
            /\ role_idx' \in {role_idx, role_idx + 1}
            /\ (pc = "r_decide" /\ pc' = "roles") =>
                  /\ Len(shared_history') = Len(shared_history) + 1
                  /\ shared_history'[Len(shared_history')].rnd = role_idx
            /\ ~(pc = "r_decide" /\ pc' = "roles") =>
                  shared_history' = shared_history]_vars

\* a run of three roles has ended: the first role's invocation failed and
\* wrote nothing back, the two later roles answered
C25_Witness ==
    /\ kind = "agent" /\ pc = "done" /\ Len(roles) = 3 /\ Count("error") = 0
    /\ \E k \in 1..Len(events) : events[k].content = "failed: planner"
    /\ Len(WrittenBack) = 2
    /\ WrittenBack[1].content = "[researcher] text of researcher"
    /\ WrittenBack[2].content = "[writer] text of writer"

\* the tool message that answers call id of a role's round
IsAnswerTo(m, id, rnd) == m.role = "tool" /\ m.tool_call_id = id /\ m.rnd = rnd

C27_NoMatchNoInvocation ==
    (kind = "agent" /\ tools_allowlist \cap Tools = {}) =>
        /\ pc \notin {"r_resolve", "r_await"}
        /\ Count("tool_start") = 0 /\ Count("tool_end") = 0

\* C27 (amended): a non-empty allowlist that matches no available tool
\* rejects every attempted tool call via tool_error without invocation; the
\* empty allowlist (the default spec) disables the filter, so no call is
\* rejected as not allowed and calls are announced and invoked.  In both
\* cases a run without error event runs every role and has exactly one
\* ai_response_start and one ai_response_end.
C27_EmptyAllowlistDisablesFilter ==
    kind = "agent" =>
        /\ (tools_allowlist # {} /\ tools_allowlist \cap Tools = {}) =>
              /\ pc \notin {"r_resolve", "r_await"} /\ inflight = 0
              /\ Count("tool_start") = 0 /\ Count("tool_end") = 0
              /\ \A k \in 1..Len(events) :
                    events[k].type = "tool_error" => events[k].content = "not allowed"
              /\ (pc = "r_tools" /\ i > 0) => events[Len(events)].type = "tool_error"
        /\ tools_allowlist = {} =>
              /\ \A k \in 1..Len(events) : events[k].content # "not allowed"
              /\ (pc = "r_tools" /\ i > 0) =>
                    events[Len(events) - 1].type = "tool_start"
        /\ (pc = "done" /\ Count("error") = 0) =>
              /\ role_idx = Len(roles)
              /\ Count("ai_response_start") = 1 /\ Count("ai_response_end") = 1

\* a run under the empty allowlist has ended and a tool was invoked in it
C27_Witness ==
    /\ kind = "agent" /\ tools_allowlist = {} /\ pc = "done"
    /\ Count("tool_end") > 0 /\ Count("ai_response_end") = 1

\* C28: tool scoping is per role: a call made by a role whose RoleSpec
\* carries its own tool_allowlist is not announced or invoked when its name
\* is outside that allowlist, whatever the global allowlist.
C28_RoleAllowlistEnforced ==
    (/\ kind = "agent" /\ pc \in {"r_resolve", "r_await"}
     /\ roles[role_idx] \in DOMAIN RoleToolAllowlist) =>
        tool_calls_check[i].name \in RoleToolAllowlist[roles[role_idx]]

\* C29: each role of a pipeline run performs at most 6 model invocations:
\* the invocation counter of a role starts at 0, grows by one with each
\* invocation and never passes the ceiling, also when the model requests
\* tools in every round; roles are taken one by one, so a run over n roles
\* performs at most 6*n invocations; and the run always terminates.
C29_RoleCeilingAndTermination ==
    /\ [](kind = "agent" =>
            /\ tool_iterations \in 0..6
            /\ role_idx \in 0..Len(roles)
            /\ pc \in {"r_stream", "r_decide", "r_tools", "r_resolve", "r_await"} =>
                  tool_iterations >= 1)
    /\ [][kind = "agent" =>
            /\ (pc' = "r_stream" /\ pc # "r_stream") <=>
                  tool_iterations' = tool_iterations + 1
            /\ tool_iterations' # tool_iterations =>
                  \/ tool_iterations' = tool_iterations + 1 /\ role_idx' = role_idx
                  \/ tool_iterations' = 0 /\ role_idx' = role_idx + 1
            /\ role_idx' \in {role_idx, role_idx + 1}
            /\ role_idx' = role_idx + 1 => tool_iterations' = 0]_vars
    /\ <>(kind = "agent" => pc = "done")

\* a role is in its sixth invocation, after five rounds of tool calls
C29_Witness ==
    /\ kind = "agent" /\ pc = "r_stream" /\ tool_iterations = 6
    /\ Count("tool_plan") >= 5

\* the chunks streamed so far that carry the prefix of role_id
PrefixedChunks(role_id) ==
    {k \in 1..Len(events) : events[k] = Ev("ai_response_chunk", "",
                                           "[" \o role_id \o "] token")}

\* C30: for each role of a pipeline run, the first chunk the role streams,
\* and only that chunk, carries the prefix "[role_id] ": the prefix is sent
\* at most once per role, also across several tool iterations, and every
\* later token of the role is streamed as it came.
C30_RolePrefixOnce ==
    /\ [](kind = "agent" /\ pc \notin {"start", "done"} =>
            /\ \A k \in 1..Len(roles) :
                  /\ Cardinality(PrefixedChunks(roles[k])) <= 1
                  /\ k > role_idx => PrefixedChunks(roles[k]) = {}
            /\ (role_idx > 0 /\ pc # "roles") =>
                  (role_prefix_sent <=> PrefixedChunks(roles[role_idx]) # {}))
    /\ [][kind = "agent" =>
            /\ (pc = "r_stream" /\ sent' = sent + 1) =>
                  /\ role_prefix_sent'
                  /\ ~role_prefix_sent =>
                        events' = Append(events, Ev("ai_response_chunk", "",
                                                    "[" \o roles[role_idx] \o "] token"))
                  /\ role_prefix_sent =>
                        events' = Append(events, Ev("ai_response_chunk", "", "token"))
            /\ (role_prefix_sent /\ ~role_prefix_sent') => role_idx' = role_idx + 1
            /\ (~role_prefix_sent /\ role_prefix_sent') =>
                  (pc = "r_stream" /\ sent' = sent + 1)]_vars

\* a role that streamed its prefixed first token in an earlier tool
\* iteration has just streamed a plain token in a later one
C30_Witness ==
    /\ kind = "agent" /\ pc = "r_stream" /\ tool_iterations >= 2
    /\ role_prefix_sent
    /\ events[Len(events)] = Ev("ai_response_chunk", "", "token")
    /\ Cardinality(PrefixedChunks(roles[role_idx])) = 1

\* the recorded text of role_id, "" when the role recorded none
OutputOf(role_id) ==
    IF \E k \in 1..Len(role_outputs) : role_outputs[k].id = role_id
    THEN role_outputs[CHOOSE k \in 1..Len(role_outputs) : role_outputs[k].id = role_id].text
    ELSE ""

\* the chunks that carry the whole text of a role
FlushChunks ==
    {k \in 1..Len(events) :
        /\ events[k].type = "ai_response_chunk"
        /\ \E r \in 1..Len(roles) : events[k].content = "text of " \o roles[r]}

\* the chunks that carry a streamed token
TokenChunks ==
    {k \in 1..Len(events) :
        /\ events[k].type = "ai_response_chunk"
        /\ \/ events[k].content = "token"
           \/ \E r \in 1..Len(roles) : events[k].content = "[" \o roles[r] \o "] token"}

\* C31 as stated: if no role streamed a token, the text of the last role of
\* the list is emitted as a single chunk right before ai_response_end.
C31_LastRoleTextFlushed ==
    (/\ kind = "agent" /\ pc = "done" /\ Count("error") = 0
     /\ TokenChunks = {} /\ OutputOf(roles[Len(roles)]) # "") =>
        events[Len(events) - 1] =
            Ev("ai_response_chunk", "", OutputOf(roles[Len(roles)]))

\* C31 (amended): the text flushed is the recorded text of the role with id
\* "writer" when that text is non-empty, and else the text of the last role
\* of the list.  If no role streamed a token and that text is non-empty, it
\* is emitted as a single ai_response_chunk immediately before
\* ai_response_end; if it is empty, or if any role streamed a token, no flush
\* chunk is emitted.
C31_WriterTextFlushed ==
    kind = "agent" =>
        LET n == Len(events)
            flushed == IF OutputOf("writer") # "" THEN OutputOf("writer")
                       ELSE OutputOf(roles[Len(roles)])
        IN /\ any_streamed <=> TokenChunks # {}
           /\ pc # "done" => FlushChunks = {}
           /\ (pc = "done" /\ Count("error") = 0) =>
                 IF TokenChunks = {} /\ flushed # ""
                 THEN /\ FlushChunks = {n - 1}
                      /\ events[n - 1] = Ev("ai_response_chunk", "", flushed)
                      /\ events[n].type = "ai_response_end"
                 ELSE FlushChunks = {}

\* no role streamed; writer and editor both ended with a text, and the
\* writer's text, not the last role's, was flushed before the terminator
C31_Witness ==
    /\ kind = "agent" /\ pc = "done" /\ roles = <<"writer", "editor">>
    /\ TokenChunks = {}
    /\ OutputOf("editor") = "text of editor"
    /\ events[Len(events) - 1] = Ev("ai_response_chunk", "", "text of writer")

\* C37: for every turn, also one cancelled at any suspension point, the
\* client receives at most one ai_response_end.
C37_AtMostOneTerminator == EndsSent <= 1

\* the contents of the ai_response_chunk events of a sequence of events
ChunkTexts(evs) ==
    LET sel == SelectSeq(evs, LAMBDA e : e.type = "ai_response_chunk")
    IN [k \in 1..Len(sel) |-> sel[k].content]

\* the events of the answering round: those after the last tool event
AnsweringRound(evs) ==
    LET toolIdx == {k \in 1..Len(evs) :
                      evs[k].type \in {"tool_plan", "tool_start", "tool_end", "tool_error"}}
        last == IF toolIdx = {} THEN 0
                ELSE CHOOSE k \in toolIdx : \A m \in toolIdx : m <= k
    IN SubSeq(evs, last + 1, Len(evs))

InCall == {s \in Sessions : in_call[s] \in {"stream", "retry", "tool"}}

\* C33: for every interleaving of concurrent turns on different sessions, the
\* level of the 'mcp' logger is CRITICAL for the whole duration of each model
\* stream and each tool invocation, and once no such call is in progress the
\* level is the one it had before the first call started.
C33_SuppressionScopedToCall ==
    /\ InCall # {} => mcp_level = "CRITICAL"
    /\ InCall = {} => mcp_level = initial_level

\* C34: building a binding is a scoped change of the ambient credentials:
\* after get_or_create_llm_instances, or the binding of a user model,
\* returns or raises, OPENAI_API_KEY and OPENAI_BASE_URL have the values
\* they had before the call, also when a variable was unset before.
C34_CredentialsRestored == [][environ' = environ]_vars

\* the profile id a requested id stands for: an empty or unknown id stands
\* for the default profile
StandsFor(requested_id) ==
    IF requested_id \in {"default", "qwen"} THEN requested_id ELSE "default"

\* C35 as stated: the bundle of a profile id is constructed on the first
\* call for that id and no later call constructs again.
C35_ConstructedOnFirstCallOnly ==
    \A pid \in DOMAIN constructions : constructions[pid] <= 1

\* C35 (amended): bindings of profiles are built lazily and cached: a call
\* whose resolved profile id has a cached bundle returns that bundle without
\* constructing; otherwise the call runs the construction, and caches the
\* bundle only if the construction does not raise, so a construction that
\* raised is run again by the next call for that id.  A cached bundle is
\* never replaced, and an empty or unknown profile id resolves to the
\* default profile's bundle.
C35_BuiltOnceThenCached ==
    /\ [](/\ \A pid \in DOMAIN llm_cache :
                /\ llm_cache[pid].pid = pid
                /\ llm_cache[pid].serial = constructions[pid]
          /\ (returned.status = "returned"
                /\ returned.bundle.pid \notin DOMAIN UserModels) =>
                /\ StandsFor(requested) \in DOMAIN llm_cache
                /\ returned.bundle = llm_cache[StandsFor(requested)])
    /\ [][/\ \A pid \in DOMAIN llm_cache :
                /\ pid \in DOMAIN llm_cache'
                /\ llm_cache'[pid] = llm_cache[pid]
                /\ constructions'[pid] = constructions[pid]
          /\ \A pid \in DOMAIN constructions :
                constructions'[pid] # constructions[pid] =>
                   /\ pid = StandsFor(requested')
                   /\ pid \notin DOMAIN llm_cache
                   /\ constructions'[pid] = constructions[pid] + 1
          /\ \A pid \in DOMAIN llm_cache' :
                pid \notin DOMAIN llm_cache =>
                   /\ pid = StandsFor(requested')
                   /\ returned' = Outcome("returned", llm_cache'[pid], TRUE)]_vars

\* the first construction for the default profile raised, the second one
\* built the bundle, and a later call with an unknown id got that bundle
\* from the cache
C35_Witness ==
    /\ requested = "nosuch"
    /\ returned = Outcome("returned", Bundle("default", 2), FALSE)
    /\ constructions["default"] = 2
    /\ "qwen" \in DOMAIN llm_cache


\* C36: a turn is built text-only only if a turn using the same model failed
\* as multimodal before; a failure of one model never makes a later turn of
\* a different model text-only, two different user-defined models included.
C36_NoLeakBetweenModels ==
    (pc # "start" /\ kind = "model" /\ force_text_only)
        => BoundModel(profile_id) \in mm_failed


\* C38: every model invocation of a single-agent turn uses the system prompt
\* of the profile the turn bound its model from, the profile selected when
\* the turn started, also when switch_model is handled during the turn.
C38_PromptOfBoundProfile ==
    kind = "model" => prompt_profiles \subseteq {profile_id}


\* C39: when the turn task has ended, for whatever reason, the conversation
\* was saved exactly once, and the saved ai_response is the concatenation, in
\* order, of the contents of the ai_response_chunk events the client
\* received (a turn that delivered no chunk text is left to the error
\* summary of lines 588-591).
C39_DeliveredContentSaved ==
    task # "running" =>
        /\ Len(saved) = 1
        /\ Join(ChunkTexts(client), "") # ""
              => saved[1] = Join(ChunkTexts(client), "")


\* the roles whose failure notice was emitted
FailedRoles ==
    {r \in 1..Len(roles) :
        \E k \in 1..Len(events) :
            events[k] = Ev("ai_response_chunk", "", "failed: " \o roles[r])}

\* C40: a model invocation failure inside a role of the pipeline is isolated
\* to the role: the failing step emits one failure-notice chunk and ends the
\* role with the shared history unchanged; the next role, if any, then starts
\* on that shared history; and a run with a failed role ends with every role
\* recorded and ai_response_end as its last event, without error event.
C40_RoleFailureIsolated ==
    /\ [][(pc = "r_stream" /\ sent = plan.tok /\ plan.fail # "none") =>
             /\ events' = Append(events, Ev("ai_response_chunk", "",
                                            "failed: " \o roles[role_idx]))
             /\ shared_history' = shared_history
             /\ pc' = "roles" /\ role_idx' = role_idx]_vars
    /\ [][(kind = "agent" /\ pc = "roles" /\ FailedRoles # {}
           /\ role_idx < Len(roles)) =>
             /\ pc' = "r_loop" /\ role_idx' = role_idx + 1
             /\ Tail(messages') = shared_history
             /\ shared_history' = shared_history]_vars
    /\ []((kind = "agent" /\ pc = "done" /\ FailedRoles # {}) =>
             /\ role_idx = Len(roles)
             /\ \A r \in 1..Len(roles) :
                    \E k \in 1..Len(role_outputs) : role_outputs[k].id = roles[r]
             /\ Count("error") = 0
             /\ events[Len(events)] = Ev("ai_response_end", "", ""))

\* a run of three roles has ended with ai_response_end: the planner's
\* invocation failed, and researcher and writer recorded their texts after it
C40_Witness ==
    /\ kind = "agent" /\ pc = "done" /\ roles = <<"planner", "researcher", "writer">>
    /\ FailedRoles = {1}
    /\ OutputOf("planner") = ""
    /\ OutputOf("researcher") = "text of researcher"
    /\ OutputOf("writer") = "text of writer"
    /\ events[Len(events)].type = "ai_response_end"

====
